---------------------------- MODULE Spec2Model ----------------------------
(***************************************************************************)
(* A model of the Ethereum / Optimism ledger-translation client:           *)
(*   - flattening of call-trace trees and synthesis of operations          *)
(*     (flattenTraces, traceOps, feeOps, populateTransaction);             *)
(*   - block, receipt and transaction fetches against a node whose chain   *)
(*     may advance and reorganise between two requests;                    *)
(*   - the trace-concurrency gate (a weighted semaphore);                  *)
(*   - account balance reads.                                              *)
(* Each part has a specification of its own (SpecOps, SpecFlatten, ...);   *)
(* the variables of the other parts stay at their idle values.             *)
(***************************************************************************)
EXTENDS Integers, Sequences, FiniteSets, TLC

VARIABLES
    \* ---- operation synthesis (populateTransaction) ----
    tx,        \* the loadedTransaction being populated
    rawTrace,  \* tx.RawTrace: the trace as the node sent it (None in SpecOps)
    tree,      \* tx.Trace: the decoded call-trace tree (None in SpecOps)
    calls,     \* the flattened traces handed to traceOps
    i,         \* number of entries of calls the traceOps loop has handled
    ops,       \* traceOps' local operation list
    prov,      \* history: for each entry of ops, the trace and statement that emitted it
    ledger,    \* traceOps' destroyedAccounts map
    reached,   \* history: the statements the last loop iteration went through
    pc,        \* where populateTransaction stands
    result,    \* the populated transaction's Operations
    \* ---- the node, and a block or transaction fetch ----
    node,      \* the node's chain: the canonical branch and its height
    req,       \* the request being served
    fpc,       \* where the fetch stands
    body,      \* the decoded block or transaction body
    header,    \* Transaction's block header
    reqs,      \* the receipt requests sent, with what came back
    uncles,    \* the uncle requests sent, with what came back
    traces,    \* the trace fetch: its permit, its request, what came back
    fres,      \* the fetch's return values
    \* ---- the trace-concurrency gate ----
    gvariant,  \* which client the callers go through
    cur,       \* traceSemaphore: the weight handed out
    waiting,   \* callers blocked in Acquire
    granted,   \* callers handed a permit whose request is not sent yet
    outBlock,  \* debug_traceBlockByHash requests outstanding
    outTx,     \* debug_traceTransaction requests outstanding
    outBatch,  \* batches of debug_traceTransaction outstanding, by size
    lastExit,  \* history: the exit by which the last trace fetch returned
    watched,   \* where one of the callers, watched among the others, stands
    ahead,     \* the callers queued in front of the watched one
    \* ---- account balance reads ----
    breq,      \* the Balance request
    bpc,       \* where Balance stands
    bhead,     \* the header Balance decoded
    bres       \* Balance's return values

opsVars == <<tx, rawTrace, tree, calls, i, ops, prov, ledger, reached, pc, result>>
fetchVars == <<node, req, fpc, body, header, reqs, uncles, traces, fres>>
gateVars ==
    <<gvariant, cur, waiting, granted, outBlock, outTx, outBatch,
      lastExit, watched, ahead>>
balVars == <<breq, bpc, bhead, bres>>

vars == <<opsVars, fetchVars, gateVars, balVars>>

\***************************************************************************
\* Bounds
\***************************************************************************
MaxCalls == 2
MaxValue == 1
MaxNodes == 4

\***************************************************************************
\* Types and constants of the program
\***************************************************************************
CallOpType == "CALL"
CreateOpType == "CREATE"
Create2OpType == "CREATE2"
SelfDestructOpType == "SELFDESTRUCT"
CallCodeOpType == "CALLCODE"
DelegateCallOpType == "DELEGATECALL"
StaticCallOpType == "STATICCALL"
DestructOpType == "DESTRUCT"
FeeOpType == "FEE"
SuccessStatus == "SUCCESS"
FailureStatus == "FAILURE"

TraceTypes ==
    { CallOpType, CallCodeOpType, DelegateCallOpType, StaticCallOpType,
      CreateOpType, Create2OpType, SelfDestructOpType }

CallType(t) ==
    t \in { CallOpType, CallCodeOpType, DelegateCallOpType, StaticCallOpType }

CreateType(t) == t \in { CreateOpType, Create2OpType }

\* Addresses as the node reports them (lower-case hex), and their
\* checksum (mixed-case) form.
AddrA == "0xaa"
AddrB == "0xbb"
BURN_ADDRESS == "0xdeaddeaddeaddeaddeaddeaddeaddeaddead0000"
Miner == "0xcc"
Accounts == { AddrA, AddrB }

\* common.Address.Hex(): the EIP-55 form of an address.
Hex(a) ==
    CASE a = AddrA -> "0xAa"
      [] a = AddrB -> "0xBb"
      [] a = Miner -> "0xCc"
      [] a = BURN_ADDRESS -> "0xDeaDDEaDDeAdDeAdDEAdDEaddeAddEAdDEAd0000"
      [] OTHER -> a

ChecksumAddress(s) == Hex(s)

MustChecksum(s) == ChecksumAddress(s)

\***************************************************************************
\* Maps (Go map[string]*big.Int) as functions with a finite domain
\***************************************************************************
EmptyMap == [k \in {} |-> 0]
MapPut(m, k, v) == [x \in DOMAIN m \cup {k} |-> IF x = k THEN v ELSE m[x]]
MapDelete(m, k) == [x \in DOMAIN m \ {k} |-> m[x]]

None == <<>>
Some(x) == <<x>>

\* The parts that a specification leaves alone rest at these values.
IdleFetch ==
    /\ node = [branch |-> "A", height |-> 1, genesis |-> <<>>]
    /\ req = None
    /\ fpc = "idle"
    /\ body = None
    /\ header = None
    /\ reqs = <<>>
    /\ uncles = <<>>
    /\ traces = None
    /\ fres = None

IdleGate ==
    /\ gvariant = "none"
    /\ cur = 0
    /\ waiting = 0
    /\ granted = 0
    /\ outBlock = 0
    /\ outTx = 0
    /\ outBatch = EmptyMap
    /\ lastExit = "none"
    /\ watched = "idle"
    /\ ahead = 0

IdleBalance ==
    /\ breq = None
    /\ bpc = "idle"
    /\ bhead = None
    /\ bres = None

\***************************************************************************
\* Call traces and their flattening
\***************************************************************************
\* Call.flatten: the node without its children.  Path stands for the
\* identity of the node (its position in the tree); GasUsed is copied by
\* the program and read by nothing that is modelled here.
flatten(t) ==
    [ Path |-> t.Path, Type |-> t.Type, From |-> t.From, To |-> t.To,
      Value |-> t.Value, Revert |-> t.Revert,
      ErrorMessage |-> t.ErrorMessage, Input |-> t.Input ]

\* A child of a reverted call as a reverted-flag-forgetting flattener
\* would leave it.
inheritNothing(data, child) == child

\* The loop body's first statement: children of a reverted call are
\* reverted, and take the parent's error message when they have none.
inheritRevert(data, child) ==
    IF data.Revert
    THEN [ child EXCEPT !.Revert = TRUE,
                        !.ErrorMessage =
                            IF Len(@) = 0 THEN data.ErrorMessage ELSE @ ]
    ELSE child

RECURSIVE flattenTraces(_, _)
RECURSIVE flattenChildren(_, _, _, _)
RECURSIVE flattenChildrenShallow(_, _, _, _)

\* A flattener that stops one level down: the child itself, none of its
\* own children.
flattenChildrenShallow(data, flattened, k, results) ==
    IF k > Len(data.Calls)
    THEN results
    ELSE LET child == inheritRevert(data, data.Calls[k])
         IN  flattenChildrenShallow(data, flattened, k + 1,
                                    Append(results, flatten(child)))

\* The loop over data.Calls, from child k on.  Each child is flattened
\* with the caller's accumulator `flattened`, not with `results`.
flattenChildren(data, flattened, k, results) ==
    IF k > Len(data.Calls)
    THEN results
    ELSE LET child == inheritRevert(data, data.Calls[k])
             children == flattenTraces(child, flattened)
         IN  flattenChildren(data, flattened, k + 1, results \o children)

flattenTraces(data, flattened) ==
    flattenChildren(data, flattened, 1, Append(flattened, flatten(data)))

\***************************************************************************
\* traceOps: one iteration of the loop over the flattened traces
\***************************************************************************
\* A call's input data, as far as the burn detection reads it: its length,
\* its first ten characters, and the two 32-byte words after the selector.
BurnSelector == "0x9dc29fac"
EmptyInput == [ Len |-> 2, Selector |-> "0x", BurnedFrom |-> AddrA, BurnedAmt |-> 0 ]
BurnInput(a, n) ==
    [ Len |-> 138, Selector |-> BurnSelector, BurnedFrom |-> a, BurnedAmt |-> n ]

\* The closure computing l2Withdraw, l2WithdrawAddr: None when the trace is
\* no recognised burn, else <<amount, address>>.  hexutil.DecodeBig fails
\* on "0x", which is what an amount of zero is trimmed to.
L2Withdraw(trace) ==
    IF trace.Type # CallOpType THEN None
    ELSE IF Hex(trace.To) # Hex(BURN_ADDRESS) THEN None
    ELSE IF trace.Input.Len # 138 THEN None
    ELSE IF trace.Input.Selector # BurnSelector THEN None
    ELSE IF trace.Input.BurnedAmt = 0 THEN None
    ELSE <<trace.Input.BurnedAmt, trace.Input.BurnedFrom>>

ShouldAddAlways(trace) == TRUE

\* shouldAdd: zero-value call-family traces emit no operation.
ShouldAdd(trace) == ~(trace.Value = 0 /\ CallType(trace.Type))

NextIndexNoStart(o, startIndex) == Len(o)

\* The index of an operation appended to the local list o.
NextIndex(o, startIndex) == Len(o) + startIndex

\* The RelatedOperations of a "to" operation.
RelatedOf(lastOpIndex) == <<lastOpIndex>>

Amount(zeroValue, v) == IF zeroValue THEN None ELSE Some(v)

MarkDestroyedOnce(led, from) == IF from \in DOMAIN led THEN led ELSE MapPut(led, from, 0)

\* A SELFDESTRUCT enters its source in destroyedAccounts with a fresh zero,
\* overwriting what was there.
MarkDestroyed(led, from) == MapPut(led, from, 0)

ResurrectNever(led, to) == led

\* A CREATE or CREATE2 removes its destination from destroyedAccounts.
Resurrect(led, to) == MapDelete(led, to)

\* The loop body for `trace`, the j-th entry of the list, from the local
\* state (o, pv, led).  Returns the new local state and the statements
\* gone through.
TraceBody(variant, startIndex, j, o, pv, led, trace) ==
    LET opStatus == IF trace.Revert THEN FailureStatus ELSE SuccessStatus
        metadata == IF trace.Revert THEN Some(trace.ErrorMessage) ELSE None
        zeroValue == trace.Value = 0
        shouldAdd == ShouldAdd(trace)
        burn == IF variant = "optimism" THEN L2Withdraw(trace) ELSE None
        from == MustChecksum(trace.From)
        to == MustChecksum(trace.To)
        fromOp == [ Index |-> NextIndex(o, startIndex), Related |-> None,
                    Type |-> trace.Type, Status |-> opStatus, Account |-> from,
                    Amount |-> Amount(zeroValue, 0 - trace.Value),
                    Metadata |-> metadata ]
        led1 == IF shouldAdd /\ ~zeroValue /\ from \in DOMAIN led
                   /\ opStatus = SuccessStatus
                THEN [ led EXCEPT ![from] = @ - trace.Value ]
                ELSE led
        o1 == IF shouldAdd THEN Append(o, fromOp) ELSE o
        pv1 == IF shouldAdd THEN Append(pv, [trace |-> j, role |-> "from"]) ELSE pv
        burnOp == [ Index |-> NextIndex(o1, startIndex), Related |-> None,
                    Type |-> trace.Type, Status |-> opStatus,
                    Account |-> Hex(burn[2]),
                    Amount |-> Some(0 - burn[1]),
                    Metadata |-> metadata ]
        o2 == IF burn # None THEN Append(o1, burnOp) ELSE o1
        pv2 == IF burn # None THEN Append(pv1, [trace |-> j, role |-> "burn"]) ELSE pv1
        isDestruct == trace.Type = SelfDestructOpType
        led2 == IF isDestruct THEN MarkDestroyed(led1, from) ELSE led1
        skipSelf == isDestruct /\ from = to
        skipEmptyTo == Len(Hex(trace.To)) = 0
        isCreate == CreateType(trace.Type)
        led3 == IF isCreate THEN Resurrect(led2, to) ELSE led2
        lastOpIndex == o2[Len(o2)].Index
        toOp == [ Index |-> lastOpIndex + 1, Related |-> RelatedOf(lastOpIndex),
                  Type |-> trace.Type, Status |-> opStatus, Account |-> to,
                  Amount |-> Amount(zeroValue, trace.Value),
                  Metadata |-> metadata ]
        led4 == IF shouldAdd /\ ~zeroValue /\ to \in DOMAIN led3
                   /\ opStatus = SuccessStatus
                THEN [ led3 EXCEPT ![to] = @ + trace.Value ]
                ELSE led3
        steps0 == (IF shouldAdd THEN {"fromOp"} ELSE {})
                  \cup (IF burn # None THEN {"burnOp"} ELSE {})
                  \cup {"checkDestruct"}
                  \cup (IF isDestruct THEN {"markDestroyed"} ELSE {})
    IN  IF skipSelf
        THEN [ ops |-> o2, prov |-> pv2, ledger |-> led2,
               reached |-> steps0 \cup {"skipSelf"} ]
        ELSE IF skipEmptyTo
        THEN [ ops |-> o2, prov |-> pv2, ledger |-> led2,
               reached |-> steps0 \cup {"skipEmptyTo"} ]
        ELSE [ ops |-> IF shouldAdd THEN Append(o2, toOp) ELSE o2,
               prov |-> IF shouldAdd
                        THEN Append(pv2, [trace |-> j, role |-> "to"])
                        ELSE pv2,
               ledger |-> led4,
               reached |-> steps0 \cup {"checkCreate"}
                           \cup (IF isCreate THEN {"resurrect"} ELSE {})
                           \cup (IF shouldAdd THEN {"toOp"} ELSE {}) ]

\***************************************************************************
\* traceOps: the synthetic DESTRUCT operations after the loop
\***************************************************************************
\* The orders in which a range over a Go map may visit the keys in S.
Orders(S) ==
    { q \in [1..Cardinality(S) -> S] : \A a \in S : \E k \in DOMAIN q : q[k] = a }

DestructAmountKept(val) == val

\* The amount of a synthetic DESTRUCT operation: the entry, negated.
DestructAmount(val) == 0 - val

RECURSIVE DestructOps(_, _, _)
\* The operations appended when the map is visited in the order q, from
\* entry k on: zero entries are skipped, every other entry is negated.
DestructOps(o, led, q) ==
    IF q = <<>> THEN o
    ELSE IF led[Head(q)] = 0 THEN DestructOps(o, led, Tail(q))
    ELSE DestructOps(
            Append(o, [ Index |-> o[Len(o)].Index + 1, Related |-> None,
                        Type |-> DestructOpType, Status |-> SuccessStatus,
                        Account |-> Head(q),
                        Amount |-> Some(DestructAmount(led[Head(q)])),
                        Metadata |-> None ]),
            led, Tail(q))

RECURSIVE DestructProv(_, _, _)
DestructProv(pv, led, q) ==
    IF q = <<>> THEN pv
    ELSE IF led[Head(q)] = 0 THEN DestructProv(pv, led, Tail(q))
    ELSE DestructProv(Append(pv, [trace |-> 0, role |-> "destruct"]), led, Tail(q))

\***************************************************************************
\* feeOps
\***************************************************************************
MinerEarnedWhole(t) == t.FeeAmount

\* minerEarnedAmount: the fee, less the burned part when there is one.
MinerEarnedAmount(t) ==
    IF t.FeeBurned = None THEN t.FeeAmount
    ELSE t.FeeAmount - t.FeeBurned[1]

BurntAmountCredited(t) == t.FeeBurned[1]

\* The amount of burntOp.
BurntAmount(t) == 0 - t.FeeBurned[1]

\* The Ethereum client's fee operations: the miner's share debited from
\* the sender and credited to the miner, then the burned part, if any.
FeeOpsEthereum(t) ==
    LET minerEarnedAmount == MinerEarnedAmount(t)
        two == << [ Index |-> 0, Related |-> None, Type |-> FeeOpType,
                    Status |-> SuccessStatus, Account |-> MustChecksum(t.From),
                    Amount |-> Some(0 - minerEarnedAmount), Metadata |-> None ],
                  [ Index |-> 1, Related |-> <<0>>, Type |-> FeeOpType,
                    Status |-> SuccessStatus, Account |-> MustChecksum(t.Miner),
                    Amount |-> Some(minerEarnedAmount), Metadata |-> None ] >>
    IN  IF t.FeeBurned = None THEN two
        ELSE Append(two,
                [ Index |-> 2, Related |-> None, Type |-> FeeOpType,
                  Status |-> SuccessStatus, Account |-> MustChecksum(t.From),
                  Amount |-> Some(BurntAmount(t)), Metadata |-> None ])

\* The Optimism client's fee operations: one debit of the sender.
FeeOpsOptimism(t) ==
    << [ Index |-> 0, Related |-> None, Type |-> FeeOpType,
         Status |-> SuccessStatus, Account |-> MustChecksum(t.From),
         Amount |-> Some(0 - t.FeeAmount), Metadata |-> None ] >>

feeOps(t) ==
    IF t.variant = "optimism" THEN FeeOpsOptimism(t) ELSE FeeOpsEthereum(t)

\***************************************************************************
\* populateTransaction as a state machine
\***************************************************************************
\* The loaded transactions populateTransaction is run on.
LoadedTxs ==
    { [ variant |-> "ethereum", From |-> AddrA, Miner |-> Miner,
        FeeAmount |-> 2, FeeBurned |-> b ] : b \in { None, Some(1) } }
    \cup
    { [ variant |-> "optimism", From |-> AddrA, Miner |-> Miner,
        FeeAmount |-> 2, FeeBurned |-> None ] }

NoTx == [ variant |-> "none", From |-> AddrA, Miner |-> Miner,
          FeeAmount |-> 0, FeeBurned |-> None ]

IdleOps ==
    /\ tx = NoTx
    /\ rawTrace = None
    /\ tree = None
    /\ calls = <<>>
    /\ i = 0
    /\ ops = <<>>
    /\ prov = <<>>
    /\ ledger = EmptyMap
    /\ reached = {}
    /\ pc = "idle"
    /\ result = None

\* The flattened traces a node's trace can give rise to.  A trace is
\* reverted exactly when it carries an error message (Call.UnmarshalJSON,
\* flattenTraces).  Only the Optimism client reads the input data.
FlatCalls(variant) ==
    { [ Path |-> <<>>, Type |-> ty, From |-> f, To |-> t, Value |-> v,
        Revert |-> (e # ""), ErrorMessage |-> e, Input |-> inp ] :
        ty \in TraceTypes, f \in Accounts,
        t \in (IF variant = "optimism" THEN Accounts \cup {BURN_ADDRESS} ELSE Accounts),
        v \in 0..MaxValue, e \in {"", "execution reverted"},
        inp \in (IF variant = "optimism"
                 THEN {EmptyInput, BurnInput(AddrA, 1)}
                 ELSE {EmptyInput}) }

InitOps(t) ==
    /\ tx = t
    /\ rawTrace = None
    /\ tree = None
    /\ calls = <<>>
    /\ i = 0
    /\ ops = <<>>
    /\ prov = <<>>
    /\ ledger = EmptyMap
    /\ reached = {}
    /\ pc = "traceOps"
    /\ result = None
    /\ IdleFetch /\ IdleGate /\ IdleBalance

\* One iteration of traceOps' loop, on the trace c.
LoopIteration(c) ==
    LET r == TraceBody(tx.variant, Len(feeOps(tx)), i + 1, ops, prov, ledger, c)
    IN  /\ i' = i + 1
        /\ ops' = r.ops
        /\ prov' = r.prov
        /\ ledger' = r.ledger
        /\ reached' = r.reached

\* The loop meets the next trace of a list that is chosen as it goes.
TraceOpsIter ==
    /\ pc = "traceOps"
    /\ Len(calls) < MaxCalls
    /\ \E c \in FlatCalls(tx.variant) :
          /\ calls' = Append(calls, c)
          /\ LoopIteration(c)
    /\ UNCHANGED <<tx, rawTrace, tree, pc, result>>
    /\ UNCHANGED <<fetchVars, gateVars, balVars>>

NegativeEntryIgnored(led) == FALSE

\* The range over destroyedAccounts meets an entry of negative sign.
NegativeEntry(led) == \E a \in DOMAIN led : led[a] < 0

\* The list is exhausted: the destroyed accounts are zeroed out, in the
\* order the map yields them, and populateTransaction appends the result
\* to the fee operations.  A negative entry ends the process (log.Fatalf).
TraceOpsFinish ==
    /\ pc = "traceOps"
    /\ i = Len(calls)
    /\ LET nonZero == { a \in DOMAIN ledger : ledger[a] # 0 }
       IN  IF NegativeEntry(ledger)
           THEN /\ pc' = "fatal"
                /\ UNCHANGED <<ops, prov, result>>
           ELSE IF nonZero # {} /\ ops = <<>>
           THEN /\ pc' = "panic"
                /\ UNCHANGED <<ops, prov, result>>
           ELSE \E q \in Orders(DOMAIN ledger) :
                /\ ops' = DestructOps(ops, ledger, q)
                /\ prov' = DestructProv(prov, ledger, q)
                /\ result' = Some(feeOps(tx) \o ops')
                /\ pc' = "done"
    /\ UNCHANGED <<tx, rawTrace, tree, calls, i, ledger, reached>>
    /\ UNCHANGED <<fetchVars, gateVars, balVars>>

NextOps == TraceOpsIter \/ TraceOpsFinish

SpecOps == (\E t \in LoadedTxs : InitOps(t)) /\ [][NextOps]_vars

\***************************************************************************
\* Decoding and flattening a trace tree
\***************************************************************************
RECURSIVE UnmarshalCall(_)
\* Call.UnmarshalJSON: a call is reverted exactly when the node reported
\* an error for it; the children are decoded the same way.
UnmarshalCall(raw) ==
    [ Path |-> raw.Path, Type |-> raw.Type, From |-> raw.From, To |-> raw.To,
      Value |-> raw.Value, Revert |-> (raw.ErrorMessage # ""),
      ErrorMessage |-> raw.ErrorMessage, Input |-> raw.Input,
      Calls |-> [ k \in DOMAIN raw.Calls |-> UnmarshalCall(raw.Calls[k]) ] ]

RECURSIVE RevertedInPlace(_)
\* The tree flattenTraces leaves behind: it writes Revert and ErrorMessage
\* into the children it visits.
RevertedInPlace(data) ==
    [ data EXCEPT !.Calls =
        [ k \in DOMAIN data.Calls |->
            RevertedInPlace(inheritRevert(data, data.Calls[k])) ] ]

\* What the node says about one call of a trace, apart from its children.
RawPayloads ==
    { [ Type |-> CallOpType, From |-> AddrA, To |-> AddrB, Value |-> v,
        ErrorMessage |-> e, Input |-> EmptyInput ] :
        v \in {0, 1}, e \in {"", "execution reverted", "out of gas"} }

RawNode(p, pl, forest) ==
    [ Path |-> p, Type |-> pl.Type, From |-> pl.From, To |-> pl.To,
      Value |-> pl.Value, ErrorMessage |-> pl.ErrorMessage,
      Input |-> pl.Input, Calls |-> forest ]

RECURSIVE RawTreesAt(_, _)
RECURSIVE RawForestsAt(_, _, _)
\* The raw traces with exactly n calls whose root sits at path p.
RawTreesAt(n, p) ==
    IF n = 0 THEN {}
    ELSE { RawNode(p, pl, f) : pl \in RawPayloads, f \in RawForestsAt(n - 1, p, 1) }

\* The lists of sibling traces with n calls in all, children k, k+1, ...
\* of the call at path p.
RawForestsAt(n, p, k) ==
    IF n = 0 THEN { <<>> }
    ELSE UNION { { <<t>> \o rest : t \in RawTreesAt(m, Append(p, k)),
                                   rest \in RawForestsAt(n - m, p, k + 1) } :
                 m \in 1..n }

RawTraces == UNION { RawTreesAt(n, <<>>) : n \in 1..MaxNodes }

FlattenTx ==
    [ variant |-> "ethereum", From |-> AddrA, Miner |-> Miner,
      FeeAmount |-> 2, FeeBurned |-> None ]

InitFlatten(raw) ==
    /\ tx = FlattenTx
    /\ rawTrace = Some(raw)
    /\ tree = Some(UnmarshalCall(raw))
    /\ calls = <<>>
    /\ i = 0
    /\ ops = <<>>
    /\ prov = <<>>
    /\ ledger = EmptyMap
    /\ reached = {}
    /\ pc = "flatten"
    /\ result = None
    /\ IdleFetch /\ IdleGate /\ IdleBalance

\* populateTransaction's call of flattenTraces, from an empty accumulator.
Flatten ==
    /\ pc = "flatten"
    /\ calls' = flattenTraces(tree[1], <<>>)
    /\ tree' = Some(RevertedInPlace(tree[1]))
    /\ pc' = "traceOps"
    /\ UNCHANGED <<tx, rawTrace, i, ops, prov, ledger, reached, result>>
    /\ UNCHANGED <<fetchVars, gateVars, balVars>>

\* The loop meets the next trace of the flattened list.
TraceOpsNext ==
    /\ pc = "traceOps"
    /\ i < Len(calls)
    /\ LoopIteration(calls[i + 1])
    /\ UNCHANGED <<tx, rawTrace, tree, calls, pc, result>>
    /\ UNCHANGED <<fetchVars, gateVars, balVars>>

NextFlatten == Flatten \/ TraceOpsNext \/ TraceOpsFinish

SpecFlatten == (\E raw \in RawTraces : InitFlatten(raw)) /\ [][NextFlatten]_vars

\***************************************************************************
\* Helpers of the properties
\***************************************************************************
RECURSIVE SumSeq(_)
SumSeq(q) == IF q = <<>> THEN 0 ELSE Head(q) + SumSeq(Tail(q))

\* The amount an operation moves (nothing when it has no Amount).
AmountOf(op) == IF op.Amount = None THEN 0 ELSE op.Amount[1]

\* The sum of the amounts of the operations of o at the positions in K.
RECURSIVE SumAt(_, _)
SumAt(o, K) ==
    IF K = {} THEN 0
    ELSE LET k == CHOOSE x \in K : TRUE
         IN  AmountOf(o[k]) + SumAt(o, K \ {k})

ZeroValueCall(c) == c.Value = 0 /\ CallType(c.Type)

\* The last trace among the first i that marked `a` destroyed (0: none).
LastMark(a) ==
    LET M == { j \in 1..i : calls[j].Type = SelfDestructOpType
                            /\ MustChecksum(calls[j].From) = a }
    IN  IF M = {} THEN 0 ELSE CHOOSE j \in M : \A k \in M : k <= j

RECURSIVE NodeAt(_, _)
\* The node of the tree t at path p (p relative to t).
NodeAt(t, p) == IF p = <<>> THEN t ELSE NodeAt(t.Calls[Head(p)], Tail(p))

RECURSIVE AllPaths(_)
AllPaths(t) == {t.Path} \cup UNION { AllPaths(t.Calls[k]) : k \in DOMAIN t.Calls }

RECURSIVE NodeCount(_)
NodeCount(t) ==
    1 + SumSeq([ k \in DOMAIN t.Calls |-> NodeCount(t.Calls[k]) ])

Parent(p) == SubSeq(p, 1, Len(p) - 1)

IsProperPrefix(p, q) == Len(p) < Len(q) /\ SubSeq(q, 1, Len(p)) = p

\* p comes before q in depth-first pre-order: p is an ancestor of q, or
\* at the first place they differ p takes the earlier child.
PreBefore(p, q) ==
    \/ IsProperPrefix(p, q)
    \/ \E d \in 1..Len(p) :
          /\ d <= Len(q)
          /\ SubSeq(p, 1, d - 1) = SubSeq(q, 1, d - 1)
          /\ p[d] < q[d]

RECURSIVE NearestMessage(_, _)
\* The error message of the nearest of p and its ancestors that has one.
NearestMessage(raw, p) ==
    IF NodeAt(raw, p).ErrorMessage # "" THEN NodeAt(raw, p).ErrorMessage
    ELSE IF p = <<>> THEN ""
    ELSE NearestMessage(raw, Parent(p))

\***************************************************************************
\* C5: in every populated transaction the operation indices start at 0
\* and are strictly increasing (hence unique) in emission order, across
\* the fee operations, the operations synthesized from the traces (the
\* extra burn operation included) and the synthetic DESTRUCT operations.
\***************************************************************************
C5_IndicesIncrease ==
    pc = "done" =>
        LET r == result[1]
        IN  /\ r[1].Index = 0
            /\ \A k \in 1..(Len(r) - 1) : r[k].Index < r[k + 1].Index

\* A populated Ethereum transaction with three fee operations, a from/to
\* pair and a synthetic DESTRUCT operation.
C5_Witness ==
    /\ pc = "done"
    /\ tx.variant = "ethereum"
    /\ tx.FeeBurned # None
    /\ \E k \in DOMAIN prov : prov[k].role = "to"
    /\ \E k \in DOMAIN prov : prov[k].role = "destruct"

\***************************************************************************
\* C6: every "to" operation synthesized from a trace carries exactly one
\* related_operations entry, the index of the "from" operation emitted for
\* the same trace, and that operation is the one immediately before it.
\***************************************************************************
C6_ToRelatesToFrom ==
    \A k \in DOMAIN ops :
        prov[k].role = "to" =>
            /\ k > 1
            /\ prov[k - 1].role = "from"
            /\ prov[k - 1].trace = prov[k].trace
            /\ ops[k].Related = << ops[k - 1].Index >>

\***************************************************************************
\* C7 as stated: at the end of synthesis, for every address marked
\* destroyed and not resurrected, the amounts of all the operations
\* emitted for it (the final DESTRUCT operation included) sum to zero.
\***************************************************************************
C7_AllAmountsSumToZero ==
    pc = "done" =>
        \A a \in DOMAIN ledger :
            SumAt(ops, { k \in DOMAIN ops : ops[k].Account = a }) = 0

\* C7 amended: at the end of synthesis, for every address still marked
\* destroyed, the amounts of the SUCCESS "from" and "to" operations emitted
\* for it by the traces after the SELFDESTRUCT that last marked it,
\* together with its final synthetic DESTRUCT operation (if any), sum to
\* zero.
C7_AmountsSinceDestructSumToZero ==
    pc = "done" =>
        \A a \in DOMAIN ledger :
            SumAt(ops, { k \in DOMAIN ops :
                            /\ ops[k].Account = a
                            /\ ops[k].Status = SuccessStatus
                            /\ \/ prov[k].role = "destruct"
                               \/ /\ prov[k].role \in {"from", "to"}
                                  /\ prov[k].trace > LastMark(a) }) = 0

\* An address destroyed, credited afterwards and zeroed by a DESTRUCT
\* operation.
C7_Witness ==
    /\ pc = "done"
    /\ \E a \in DOMAIN ledger :
          /\ ledger[a] > 0
          /\ \E k \in DOMAIN ops :
                /\ prov[k].role = "destruct"
                /\ ops[k].Account = a
                /\ ops[k].Amount = Some(0 - ledger[a])

\***************************************************************************
\* C10: a zero-value trace of type CALL, CALLCODE, DELEGATECALL or
\* STATICCALL emits neither a "from" nor a "to" operation, and the loop
\* still goes through the SELFDESTRUCT check and the CREATE check for it.
\***************************************************************************
C10_ZeroValueCallsSuppressed ==
    /\ \A j \in 1..i :
          ZeroValueCall(calls[j]) =>
              ~ \E k \in DOMAIN ops :
                    prov[k].trace = j /\ prov[k].role \in {"from", "to"}
    /\ (i > 0 /\ ZeroValueCall(calls[i])) =>
          /\ {"checkDestruct", "checkCreate"} \subseteq reached
          /\ reached \cap {"fromOp", "toOp"} = {}

\* A zero-value STATICCALL handled while an account is marked destroyed,
\* after a trace that did emit operations.
C10_Witness ==
    /\ i = 2
    /\ calls[2].Type = StaticCallOpType
    /\ calls[2].Value = 0
    /\ DOMAIN ledger # {}
    /\ Len(ops) = 2
    /\ "checkCreate" \in reached

\***************************************************************************
\* C8: when a node of a trace tree is marked reverted, every flattened
\* entry of a descendant of it is reverted and carries its own error
\* message, or its parent's when it has none of its own, and every
\* operation synthesized from such an entry has status FAILURE and that
\* message.
\***************************************************************************
HasRevertedAncestor(decoded, p) ==
    \E n \in 0..(Len(p) - 1) : NodeAt(decoded, SubSeq(p, 1, n)).Revert

InheritedMessage(raw, p) ==
    IF NodeAt(raw, p).ErrorMessage # "" THEN NodeAt(raw, p).ErrorMessage
    ELSE NearestMessage(raw, Parent(p))

C8_RevertPropagates ==
    pc # "flatten" =>
        \A j \in 1..Len(calls) :
            HasRevertedAncestor(UnmarshalCall(rawTrace[1]), calls[j].Path) =>
                /\ calls[j].Revert
                /\ calls[j].ErrorMessage =
                       InheritedMessage(rawTrace[1], calls[j].Path)
                /\ \A k \in DOMAIN ops :
                       prov[k].trace = j =>
                           /\ ops[k].Status = FailureStatus
                           /\ ops[k].Metadata =
                                  Some(InheritedMessage(rawTrace[1],
                                                        calls[j].Path))

\* A grandchild with value and no error of its own, under a child without
\* error, under a reverted root: its operations fail with the root's message.
C8_Witness ==
    /\ pc = "done"
    /\ rawTrace[1].ErrorMessage = "out of gas"
    /\ \E j \in 1..Len(calls) :
          /\ Len(calls[j].Path) = 2
          /\ NodeAt(rawTrace[1], calls[j].Path).ErrorMessage = ""
          /\ NodeAt(rawTrace[1], Parent(calls[j].Path)).ErrorMessage = ""
          /\ \E k \in DOMAIN ops :
                /\ prov[k].trace = j
                /\ ops[k].Status = FailureStatus
                /\ ops[k].Metadata = Some("out of gas")

\***************************************************************************
\* C9: flattening a tree of N nodes from an empty accumulator gives
\* exactly N entries, one per node, in depth-first pre-order: a parent
\* before its children, the children in their original order.
\***************************************************************************
C9_FlattenPreOrder ==
    pc # "flatten" =>
        /\ Len(calls) = NodeCount(rawTrace[1])
        /\ { calls[j].Path : j \in 1..Len(calls) } = AllPaths(rawTrace[1])
        /\ \A j, k \in 1..Len(calls) :
              j < k => PreBefore(calls[j].Path, calls[k].Path)
        /\ \A j \in 1..Len(calls) :
              LET n == NodeAt(rawTrace[1], calls[j].Path)
              IN  /\ calls[j].Type = n.Type
                  /\ calls[j].From = n.From
                  /\ calls[j].To = n.To
                  /\ calls[j].Value = n.Value

\* A flattened tree whose root has two children, the first with a child of
\* its own.
C9_Witness ==
    /\ pc = "traceOps"
    /\ Len(calls) = 4
    /\ calls[2].Path = <<1>>
    /\ calls[3].Path = <<1, 1>>
    /\ calls[4].Path = <<2>>

\***************************************************************************
\* The node.  Two branches, "A" and "B", grow from a common genesis block;
\* one of them is canonical.  A block's hash is <<branch, number>>.  The
\* transactions t1 and t2 are mined in A's first block; branch B mines t2
\* in its first block and t1 in its second.  The second block of a branch
\* names the first block of the other branch as its uncle.  What the node
\* reports as the transactions of the genesis block is a parameter of the
\* node.
\***************************************************************************
MaxHeight == 2

GenesisBlockIndex == 0

GenesisHash == <<"G", 0>>

Branches == {"A", "B"}

TxHashes == {"t1", "t2"}

HashAt(branch, n) == IF n = GenesisBlockIndex THEN GenesisHash ELSE <<branch, n>>

\* The transaction lists a node may report for its genesis block.
GenesisTransactions == { <<>>, <<"t0">> }

BlockTransactions(nd, h) ==
    IF h = GenesisHash THEN nd.genesis
    ELSE IF h = <<"A", 1>> THEN <<"t1", "t2">>
    ELSE IF h = <<"B", 1>> THEN <<"t2">>
    ELSE IF h = <<"B", 2>> THEN <<"t1">>
    ELSE <<>>

BlockCoinbase(h) == IF h[1] = "B" THEN AddrB ELSE Miner

ParentHash(h) == IF h[2] <= 1 THEN GenesisHash ELSE <<h[1], h[2] - 1>>

BlockUncles(h) ==
    IF h = <<"A", 2>> THEN << <<"B", 1>> >>
    ELSE IF h = <<"B", 2>> THEN << <<"A", 1>> >>
    ELSE <<>>

\* The header of a block, as eth_getUncleByBlockHashAndIndex gives it.
HeaderOf(h) == [ Hash |-> h, Number |-> h[2], Coinbase |-> BlockCoinbase(h) ]

BlockOf(nd, h) ==
    [ Hash |-> h, Number |-> h[2], ParentHash |-> ParentHash(h),
      Coinbase |-> BlockCoinbase(h),
      Transactions |-> BlockTransactions(nd, h),
      UncleHashes |-> BlockUncles(h) ]

\* The call trace the node computes for a transaction.
TraceOf(t) == <<"trace", t>>

\* The blocks the node has seen: those of both branches up to its height.
Known(nd) ==
    {GenesisHash} \cup { <<b, n>> : b \in Branches, n \in 1..nd.height }

\* eth_getBlockByHash: any block the node has seen, canonical or not.
NodeBlockByHash(nd, h) == IF h \in Known(nd) THEN Some(BlockOf(nd, h)) ELSE None

\* eth_getBlockByNumber: the canonical block of that number.
NodeBlockByNumber(nd, n) ==
    IF n \in 0..nd.height THEN Some(BlockOf(nd, HashAt(nd.branch, n))) ELSE None

NodeLatest(nd) == Some(BlockOf(nd, HashAt(nd.branch, nd.height)))

\* The canonical block a transaction is mined in, if any.
NodeTxBlock(nd, t) ==
    LET H == { h \in { HashAt(nd.branch, n) : n \in 0..nd.height } :
                 \E k \in DOMAIN BlockTransactions(nd, h) :
                        BlockTransactions(nd, h)[k] = t }
    IN  IF H = {} THEN None ELSE Some(CHOOSE h \in H : TRUE)

\* eth_getTransactionReceipt: null while the transaction is not mined.
NodeReceipt(nd, t) ==
    IF NodeTxBlock(nd, t) = None THEN None
    ELSE Some([ TxHash |-> t, BlockHash |-> NodeTxBlock(nd, t)[1] ])

\* eth_getTransactionByHash: a pending transaction has no block hash.
NodeTransaction(nd, t) ==
    IF t \in TxHashes THEN Some([ Hash |-> t, BlockHash |-> NodeTxBlock(nd, t) ])
    ELSE None

\* A request is being served.
Serving == fpc \notin {"idle", "done"} \/ bpc \notin {"idle", "done"}

\* The canonical chain grows by a block.
Advance ==
    /\ Serving
    /\ node.height < MaxHeight
    /\ node' = [node EXCEPT !.height = @ + 1]
    /\ UNCHANGED <<req, fpc, body, header, reqs, fres, uncles, traces>>
    /\ UNCHANGED <<opsVars, gateVars, balVars>>

\* The other branch becomes canonical.
Reorg ==
    /\ Serving
    /\ node' = [node EXCEPT !.branch = IF @ = "A" THEN "B" ELSE "A"]
    /\ UNCHANGED <<req, fpc, body, header, reqs, fres, uncles, traces>>
    /\ UNCHANGED <<opsVars, gateVars, balVars>>

\***************************************************************************
\* Block and uncle rewards (miningReward, blockRewardTransaction)
\*
\* Rewards are counted in units of 1/32 ether (31250000000000000 wei): the
\* three block rewards are whole multiples of 32 such units, so the
\* division by MaxUncleDepth and the product with numUncles/32 come out
\* in these units exactly as they do in wei.  No block has more than
\* MaxUncles uncles, and the int64 the code adds the rewards in holds
\* every sum that arises.
\***************************************************************************
MaxRewardHeight == 5
MaxUncles == 2
MaxUncleDistance == 2

MinerRewardOpType == "MINER_REWARD"
UncleRewardOpType == "UNCLE_REWARD"

UnclesRewardMultiplier == 32
MaxUncleDepth == 8

\* ethash.FrontierBlockReward (5 ether), ethash.ByzantiumBlockReward
\* (3 ether), ethash.ConstantinopleBlockReward (2 ether).
FrontierBlockReward == 160
ByzantiumBlockReward == 96
ConstantinopleBlockReward == 64

\* params.ChainConfig.IsByzantium / IsConstantinople: the fork is
\* configured and its block is not after num.
IsForked(forkBlock, num) == forkBlock # None /\ forkBlock[1] <= num

miningReward(p, currentBlock) ==
    IF IsForked(p.ConstantinopleBlock, currentBlock) THEN ConstantinopleBlockReward
    ELSE IF IsForked(p.ByzantiumBlock, currentBlock) THEN ByzantiumBlockReward
    ELSE FrontierBlockReward

\* big.Float.Int64 of the product float64(numUncles)/32 x float64(reward):
\* both factors and the product are exact in 53 bits, and the conversion
\* drops the fraction.
MinerRewardNoBonus(reward, numUncles) == reward

MinerReward(reward, numUncles) ==
    IF numUncles > 0
    THEN reward + ((numUncles * reward) \div UnclesRewardMultiplier)
    ELSE reward

UncleReward(reward, uncleBlock, index) ==
    (uncleBlock + MaxUncleDepth - index) * (reward \div MaxUncleDepth)

RewardOp(index, type, account, amount) ==
    [ Index |-> index, Related |-> None, Type |-> type,
      Status |-> SuccessStatus, Account |-> MustChecksum(account),
      Amount |-> Some(amount), Metadata |-> None ]

\* The reward transaction of the block: the miner's operation, then one
\* operation per uncle in the order of the uncle list.
blockRewardTransaction(p, blockIdentifier, miner, uncleHeaders) ==
    LET reward == miningReward(p, blockIdentifier.Index)
    IN  [ Hash |-> blockIdentifier.Hash,
          Operations |->
            << RewardOp(0, MinerRewardOpType, miner,
                        MinerReward(reward, Len(uncleHeaders))) >>
            \o [ k \in 1..Len(uncleHeaders) |->
                   RewardOp(k, UncleRewardOpType, uncleHeaders[k].Coinbase,
                            UncleReward(reward, uncleHeaders[k].Number,
                                        blockIdentifier.Index)) ] ]

\***************************************************************************
\* Block and Transaction fetches (Client.Block, Client.Transaction)
\***************************************************************************
ErrNone == "none"
ErrBlockOrphaned == "block orphaned"
ErrNotFound == "not found"
ErrRPC == "rpc error"
ErrEmptyReceipt == "got empty receipt"
ErrNullHeader == "got null header for uncle"
ErrEmptyTrace == "got empty trace"
ErrCancelled == "context canceled"
ErrHashRequired == "transaction hash is required"
Panic == "panic: nil pointer dereference"

\* The empty string, where a hash is expected.
EmptyHash == <<>>

Failed(e) == [ err |-> e, value |-> None ]
Returned(v) == [ err |-> ErrNone, value |-> Some(v) ]

\* rpc.BatchElem.Error: the error the node answered the element of that
\* position with, as distinct from the error of the batch as a whole
\* (ErrRPC).
ElementErrors == << "error of element 1", "error of element 2" >>

ElemErrorOfBatch(k) == ErrRPC

ElemError(k) == ElementErrors[k]

RECURSIVE ReceiptsLoop(_, _, _)
\* getBlockReceipts' loop over the answered batch, from element k on: the
\* first element with an error, without a receipt or with a receipt of
\* another block ends it.
ReceiptsLoop(blockHash, elems, k) ==
    IF k > Len(elems) THEN ErrNone
    ELSE IF elems[k].Error THEN ElemError(k)
    ELSE IF elems[k].Receipt = None THEN ErrEmptyReceipt
    ELSE IF elems[k].Receipt[1].BlockHash # blockHash THEN ErrBlockOrphaned
    ELSE ReceiptsLoop(blockHash, elems, k + 1)

\* What a batch of eth_getTransactionReceipt brings back: each element its
\* own error or the node's answer.
BatchAnswers(nd, txs) ==
    { [ k \in DOMAIN txs |->
          [ Error |-> e[k],
            Receipt |-> IF e[k] THEN None ELSE NodeReceipt(nd, txs[k]) ] ] :
      e \in [DOMAIN txs -> BOOLEAN] }

RECURSIVE UnclesLoop(_, _)
\* getUncles' loop over the answered batch, from element k on.
UnclesLoop(elems, k) ==
    IF k > Len(elems) THEN ErrNone
    ELSE IF elems[k].Error THEN ElemError(k)
    ELSE IF elems[k].Header = None THEN ErrNullHeader
    ELSE UnclesLoop(elems, k + 1)

\* What a batch of eth_getUncleByBlockHashAndIndex brings back: each
\* element its own error, null, or the header.
UncleAnswers(hashes) ==
    { [ k \in DOMAIN hashes |->
          [ Error |-> (o[k] = "error"),
            Header |-> IF o[k] = "ok" THEN Some(HeaderOf(hashes[k])) ELSE None ] ] :
      o \in [DOMAIN hashes -> {"ok", "error", "null"}] }

RECURSIVE TracesLoop(_, _)
\* The Optimism getTransactionTraces' loop over the answered batch.
TracesLoop(elems, k) ==
    IF k > Len(elems) THEN ErrNone
    ELSE IF elems[k].Error THEN ElemError(k)
    ELSE IF elems[k].Trace = None THEN ErrEmptyTrace
    ELSE TracesLoop(elems, k + 1)

\* What a batch of debug_traceTransaction brings back.
TraceAnswers(txs) ==
    { [ k \in DOMAIN txs |->
          [ Error |-> (o[k] = "error"),
            Trace |-> IF o[k] = "ok" THEN Some(TraceOf(txs[k])) ELSE None ] ] :
      o \in [DOMAIN txs -> {"ok", "error", "null"}] }

\* What debug_traceBlockByHash brings back: one result per transaction.
BlockTraceAnswer(txs) ==
    [ k \in DOMAIN txs |-> [ Error |-> FALSE, Trace |-> Some(TraceOf(txs[k])) ] ]

\* The chain configuration of the client (ec.p).
ChainConfig == [ ByzantiumBlock |-> Some(1), ConstantinopleBlock |-> Some(2) ]

PartialBlockIdentifiers ==
    { [ Hash |-> Some(h), Index |-> None ] :
          h \in {GenesisHash, <<"A", 1>>, <<"B", 1>>, <<"A", MaxHeight + 1>>} }
    \cup { [ Hash |-> None, Index |-> Some(n) ] : n \in 0..1 }
    \cup { [ Hash |-> None, Index |-> None ] }

BlockIdentifiers ==
    { [ Hash |-> h, Index |-> 1 ] : h \in {<<"A", 1>>, <<"B", 1>>, EmptyHash} }

Requests ==
    { [ op |-> "Block", variant |-> v, id |-> id, txHash |-> "" ] :
          v \in {"ethereum", "optimism"}, id \in PartialBlockIdentifiers }
    \cup { [ op |-> "Transaction", variant |-> "ethereum", id |-> id, txHash |-> t ] :
          id \in BlockIdentifiers, t \in TxHashes \cup {"", "t9"} }

InitFetch(r, nd) ==
    /\ node = nd
    /\ req = Some(r)
    /\ fpc = IF r.op = "Block" THEN "getBlock" ELSE "getTransaction"
    /\ body = None
    /\ header = None
    /\ reqs = <<>>
    /\ uncles = <<>>
    /\ traces = None
    /\ fres = None
    /\ IdleOps /\ IdleGate /\ IdleBalance

\* What the header of a block says of its lists: whether UncleHash and
\* TxHash are those of a non-empty list.
HeadOf(b) ==
    [ HasUncles |-> b.UncleHashes # <<>>,
      HasTransactions |-> b.Transactions # <<>> ]

\* The headers a node may send with a body: the one that agrees with the
\* body, and those that do not.
HeadsOf(b) ==
    { [ HasUncles |-> u, HasTransactions |-> t ] : u, t \in BOOLEAN }

ErrHeaderBodyMismatch == "server returned a list the block header contradicts"

\* getUncles without its quick verification.
QuickVerifySkipped(head, b) == ErrNone

\* getUncles' quick verification of the transaction and uncle lists
\* against the header.
QuickVerify(head, b) ==
    IF head.HasUncles # (b.UncleHashes # <<>>)
       \/ head.HasTransactions # (b.Transactions # <<>>)
    THEN ErrHeaderBodyMismatch
    ELSE ErrNone

ErrDecode == "json: cannot unmarshal"

\* The ways a trace fetch of the Ethereum client ends: its context is
\* cancelled while it waits for a permit, the request fails, the answer
\* does not decode, or all goes well.
TraceOutcomes == { "cancelled", "request error", "decode error", "ok" }

\* A trace fetch that sends its request whether or not it got a permit.
TraceFetchSendsAnyway(out) ==
    [ Exit |-> out,
      Acquired |-> out # "cancelled",
      Sent |-> TRUE,
      Released |-> out # "cancelled",
      err |-> CASE out = "cancelled" -> ErrCancelled
                [] out = "request error" -> ErrRPC
                [] out = "decode error" -> ErrDecode
                [] OTHER -> ErrNone ]

\* getBlockTraces / getTransactionTraces of the Ethereum client: Acquire's
\* error is returned at once; after a successful Acquire the deferred
\* Release runs whichever way the fetch returns.
TraceFetch(out) ==
    [ Exit |-> out,
      Acquired |-> out # "cancelled",
      Sent |-> out # "cancelled",
      Released |-> out # "cancelled",
      err |-> CASE out = "cancelled" -> ErrCancelled
                [] out = "request error" -> ErrRPC
                [] out = "decode error" -> ErrDecode
                [] OTHER -> ErrNone ]

\* A trace stage without a permit (the Optimism client).
NoPermit(sent, answers) ==
    [ Exit |-> "none", Acquired |-> FALSE, Sent |-> sent, Released |-> FALSE,
      Answers |-> answers ]

\* Block picks the method by the identifier; getBlock sends it and decodes
\* the header and the body.  The Ethereum client goes on to the uncles, the
\* Optimism client to the receipts.
GetBlock ==
    /\ fpc = "getBlock"
    /\ \E ok \in BOOLEAN :
          LET id  == req[1].id
              raw == IF id.Hash # None THEN NodeBlockByHash(node, id.Hash[1])
                     ELSE IF id.Index # None THEN NodeBlockByNumber(node, id.Index[1])
                     ELSE NodeLatest(node)
          IN  IF ~ok THEN /\ fres' = Some(Failed(ErrRPC))
                          /\ fpc' = "done"
                          /\ UNCHANGED <<body, header>>
              ELSE IF raw = None THEN /\ fres' = Some(Failed(ErrNotFound))
                                      /\ fpc' = "done"
                                      /\ UNCHANGED <<body, header>>
              ELSE /\ body' = raw
                   /\ \E head \in HeadsOf(raw[1]) :
                         /\ req[1].variant # "ethereum" => head = HeadOf(raw[1])
                         /\ header' = Some(head)
                   /\ fpc' = IF req[1].variant = "ethereum"
                             THEN "getUncles" ELSE "getBlockReceipts"
                   /\ fres' = fres
    /\ UNCHANGED <<node, req, reqs, uncles, traces>>
    /\ UNCHANGED <<opsVars, gateVars, balVars>>

\* getUncles: the quick verification, then one batch for all the uncle
\* hashes of the body and the loop over what came back.
GetUncles ==
    /\ fpc = "getUncles"
    /\ LET hashes == body[1].UncleHashes
       IN  IF QuickVerify(header[1], body[1]) # ErrNone
           THEN /\ uncles' = uncles
                /\ fres' = Some(Failed(QuickVerify(header[1], body[1])))
                /\ fpc' = "done"
           ELSE IF hashes = <<>>
           THEN /\ uncles' = <<>>
                /\ fpc' = "getBlockReceipts"
                /\ fres' = fres
           ELSE \E ok \in BOOLEAN :
                  IF ~ok THEN /\ uncles' = uncles
                              /\ fres' = Some(Failed(ErrRPC))
                              /\ fpc' = "done"
                  ELSE \E answers \in UncleAnswers(hashes) :
                         LET e == UnclesLoop(answers, 1)
                         IN  /\ uncles' = answers
                             /\ IF e # ErrNone
                                THEN /\ fres' = Some(Failed(e))
                                     /\ fpc' = "done"
                                ELSE /\ fres' = fres
                                     /\ fpc' = "getBlockReceipts"
    /\ UNCHANGED <<node, req, body, header, reqs, traces>>
    /\ UNCHANGED <<opsVars, gateVars, balVars>>

\* getBlockReceipts: one batch for all the transactions of the body, then
\* the loop over what came back.  getBlock gives up on its error.
GetBlockReceipts ==
    /\ fpc = "getBlockReceipts"
    /\ LET txs == body[1].Transactions
       IN  IF txs = <<>>
           THEN /\ reqs' = <<>>
                /\ fpc' = "getBlockTraces"
                /\ fres' = fres
           ELSE \E ok \in BOOLEAN :
                  IF ~ok THEN /\ reqs' = reqs
                              /\ fres' = Some(Failed(ErrRPC))
                              /\ fpc' = "done"
                  ELSE \E answers \in BatchAnswers(node, txs) :
                         LET e == ReceiptsLoop(body[1].Hash, answers, 1)
                         IN  /\ reqs' = answers
                             /\ IF e # ErrNone
                                THEN /\ fres' = Some(Failed(e))
                                     /\ fpc' = "done"
                                ELSE /\ fres' = fres
                                     /\ fpc' = "getBlockTraces"
    /\ UNCHANGED <<node, req, body, header, uncles, traces>>
    /\ UNCHANGED <<opsVars, gateVars, balVars>>

\* The traces of the block, none at genesis.  The Ethereum client takes a
\* permit of the trace semaphore and sends one debug_traceBlockByHash; the
\* Optimism client sends one batch of debug_traceTransaction, then loops
\* over what came back.
GetBlockTraces ==
    /\ fpc = "getBlockTraces"
    /\ LET txs == body[1].Transactions
       IN  IF body[1].Number = GenesisBlockIndex
           THEN /\ traces' = traces
                /\ fres' = fres
                /\ fpc' = "populateTransactions"
           ELSE IF req[1].variant = "ethereum"
           THEN \E out \in TraceOutcomes :
                  LET f == TraceFetch(out)
                  IN  /\ traces' = Some([ Exit |-> f.Exit,
                                          Acquired |-> f.Acquired,
                                          Sent |-> f.Sent,
                                          Released |-> f.Released,
                                          Answers |-> IF f.err = ErrNone
                                                      THEN BlockTraceAnswer(txs)
                                                      ELSE <<>> ])
                      /\ IF f.err = ErrNone
                         THEN /\ fres' = fres
                              /\ fpc' = "populateTransactions"
                         ELSE /\ fres' = Some(Failed(f.err))
                              /\ fpc' = "done"
           ELSE IF txs = <<>>
           THEN /\ traces' = Some(NoPermit(FALSE, <<>>))
                /\ fres' = fres
                /\ fpc' = "populateTransactions"
           ELSE \E ok \in BOOLEAN :
                  IF ~ok THEN /\ traces' = Some(NoPermit(TRUE, <<>>))
                              /\ fres' = Some(Failed(ErrRPC))
                              /\ fpc' = "done"
                  ELSE \E answers \in TraceAnswers(txs) :
                         LET e == TracesLoop(answers, 1)
                         IN  /\ traces' = Some(NoPermit(TRUE, answers))
                             /\ IF e # ErrNone
                                THEN /\ fres' = Some(Failed(e))
                                     /\ fpc' = "done"
                                ELSE /\ fres' = fres
                                     /\ fpc' = "populateTransactions"
    /\ UNCHANGED <<node, req, body, header, reqs, uncles>>
    /\ UNCHANGED <<opsVars, gateVars, balVars>>

\* getBlock's loaded transactions: the transactions of the body in their
\* order, each with its receipt and, when traces were fetched, its trace.
LoadedTransactions(b, receipts, tr) ==
    [ k \in DOMAIN b.Transactions |->
        [ Hash |-> b.Transactions[k],
          Receipt |-> receipts[k].Receipt[1],
          Trace |-> IF tr = None THEN None ELSE tr[1].Answers[k].Trace ] ]

\* populateTransaction: flattenTraces dereferences the trace.
populateTransaction(ltx) ==
    [ Hash |-> ltx.Hash, Receipt |-> ltx.Receipt, Trace |-> ltx.Trace[1] ]

\* populateTransactions' list: the Ethereum client puts the reward
\* transaction in front, the Optimism client has none.
TransactionsRewardLast(variant, reward, populated) ==
    IF variant = "ethereum" THEN populated \o << reward >> ELSE populated

Transactions(variant, reward, populated) ==
    IF variant = "ethereum" THEN << reward >> \o populated ELSE populated

\* getParsedBlock after getBlock: the block identifiers and the populated
\* transactions.  A loaded transaction without a trace makes
\* populateTransaction panic.
PopulateTransactions ==
    /\ fpc = "populateTransactions"
    /\ LET b == body[1]
           loaded == LoadedTransactions(b, reqs, traces)
           blockIdentifier == [ Hash |-> b.Hash, Index |-> b.Number ]
           parentBlockIdentifier ==
               IF b.Number # GenesisBlockIndex
               THEN [ Hash |-> b.ParentHash, Index |-> b.Number - 1 ]
               ELSE blockIdentifier
           reward == blockRewardTransaction(
                         ChainConfig, blockIdentifier, b.Coinbase,
                         [ k \in DOMAIN uncles |-> uncles[k].Header[1] ])
       IN  IF \E k \in DOMAIN loaded : loaded[k].Trace = None
           THEN fres' = Some(Failed(Panic))
           ELSE fres' = Some(Returned(
                    [ BlockIdentifier |-> blockIdentifier,
                      ParentBlockIdentifier |-> parentBlockIdentifier,
                      Transactions |->
                          Transactions(req[1].variant, reward,
                              [ k \in DOMAIN loaded |->
                                  populateTransaction(loaded[k]) ]) ]))
    /\ fpc' = "done"
    /\ UNCHANGED <<node, req, body, header, reqs, uncles, traces>>
    /\ UNCHANGED <<opsVars, gateVars, balVars>>

\* Transaction: eth_getTransactionByHash and the decoding of its answer.
GetTransaction ==
    /\ fpc = "getTransaction"
    /\ \E ok \in BOOLEAN :
          LET raw == NodeTransaction(node, req[1].txHash)
          IN  IF req[1].txHash = ""
              THEN /\ fres' = Some(Failed(ErrHashRequired))
                   /\ fpc' = "done"
                   /\ body' = body
              ELSE IF ~ok
              THEN /\ fres' = Some(Failed(ErrRPC))
                   /\ fpc' = "done"
                   /\ body' = body
              ELSE IF raw = None
              THEN /\ fres' = Some(Failed(ErrNotFound))
                   /\ fpc' = "done"
                   /\ body' = body
              ELSE /\ body' = raw
                   /\ fpc' = "getHeader"
                   /\ fres' = fres
    /\ UNCHANGED <<node, req, header, reqs, uncles, traces>>
    /\ UNCHANGED <<opsVars, gateVars, balVars>>

\* Transaction: the header of the block the caller named, by hash when the
\* identifier has one, by number otherwise.
GetHeader ==
    /\ fpc = "getHeader"
    /\ \E ok \in BOOLEAN :
          LET id   == req[1].id
              head == IF id.Hash # EmptyHash THEN NodeBlockByHash(node, id.Hash)
                      ELSE NodeBlockByNumber(node, id.Index)
          IN  IF ~ok THEN /\ fres' = Some(Failed(ErrRPC))
                          /\ fpc' = "done"
                          /\ header' = header
              ELSE IF head = None THEN /\ fres' = Some(Failed(ErrNotFound))
                                       /\ fpc' = "done"
                                       /\ header' = header
              ELSE /\ header' = head
                   /\ fpc' = "getReceipt"
                   /\ fres' = fres
    /\ UNCHANGED <<node, req, body, reqs, uncles, traces>>
    /\ UNCHANGED <<opsVars, gateVars, balVars>>

\* Transaction: the receipt, and its block hash compared with the block hash
\* of the transaction body, before the error of the receipt fetch is looked
\* at: without a receipt, or without a block hash in the body, the
\* comparison dereferences nil.
GetReceipt ==
    /\ fpc = "getReceipt"
    /\ \E ok \in BOOLEAN :
          LET receipt == IF ok THEN NodeReceipt(node, body[1].Hash) ELSE None
          IN  /\ reqs' = << [ Error |-> ~ok, Receipt |-> receipt ] >>
              /\ IF receipt = None \/ body[1].BlockHash = None
                 THEN /\ fres' = Some(Failed(Panic))
                      /\ fpc' = "done"
                 ELSE IF receipt[1].BlockHash # body[1].BlockHash[1]
                 THEN /\ fres' = Some(Failed(ErrBlockOrphaned))
                      /\ fpc' = "done"
                 ELSE /\ fres' = fres
                      /\ fpc' = "getTransactionTraces"
    /\ UNCHANGED <<node, req, body, header, uncles, traces>>
    /\ UNCHANGED <<opsVars, gateVars, balVars>>

\* Transaction: the traces (none at genesis), then the transaction is
\* populated with the fee and the miner of the header.
GetTransactionTraces ==
    /\ fpc = "getTransactionTraces"
    /\ IF header[1].Number = GenesisBlockIndex
       THEN /\ traces' = traces
            /\ fres' = Some(Returned([ Hash |-> body[1].Hash,
                                       Header |-> header[1],
                                       Receipt |-> reqs[1].Receipt[1] ]))
       ELSE \E out \in TraceOutcomes :
              LET f == TraceFetch(out)
              IN  /\ traces' = Some([ Exit |-> f.Exit,
                                      Acquired |-> f.Acquired,
                                      Sent |-> f.Sent,
                                      Released |-> f.Released,
                                      Answers |-> IF f.err = ErrNone
                                                  THEN << [ Error |-> FALSE,
                                                          Trace |-> Some(TraceOf(
                                                              body[1].Hash)) ] >>
                                                  ELSE <<>> ])
                  /\ IF f.err = ErrNone
                     THEN fres' = Some(Returned([ Hash |-> body[1].Hash,
                                                 Header |-> header[1],
                                                 Receipt |-> reqs[1].Receipt[1] ]))
                     ELSE fres' = Some(Failed(f.err))
    /\ fpc' = "done"
    /\ UNCHANGED <<node, req, body, header, reqs, uncles>>
    /\ UNCHANGED <<opsVars, gateVars, balVars>>

NextFetch ==
    \/ GetBlock
    \/ GetUncles
    \/ GetBlockReceipts
    \/ GetBlockTraces
    \/ PopulateTransactions
    \/ GetTransaction
    \/ GetHeader
    \/ GetReceipt
    \/ GetTransactionTraces
    \/ Advance
    \/ Reorg

SpecFetch ==
    /\ \E r \in Requests, b \in Branches, g \in GenesisTransactions :
          InitFetch(r, [branch |-> b, height |-> 1, genesis |-> g])
    /\ [][NextFetch]_vars

\***************************************************************************
\* C1: in every batched receipt fetch for a block of hash H, if any
\* receipt that came back names a block hash other than H, the receipt
\* fetch and the block fetch that issued it fail with the orphaned-block
\* error and return no block.
\***************************************************************************
MismatchedReceipt ==
    \E k \in DOMAIN reqs :
        /\ reqs[k].Receipt # None
        /\ reqs[k].Receipt[1].BlockHash # body[1].Hash

C1_MismatchFailsOrphaned ==
    (req # None /\ req[1].op = "Block" /\ body # None /\ MismatchedReceipt) =>
        /\ fpc = "done"
        /\ fres[1].err = ErrBlockOrphaned
        /\ fres[1].value = None

\***************************************************************************
\* C2: Transaction(blockIdentifier, txHash) fails with the orphaned-block
\* error whenever the receipt of the transaction names a block hash other
\* than that of the block the caller identified.
\***************************************************************************
C2_ReceiptOutsideCallerBlockFailsOrphaned ==
    ( /\ req # None
      /\ req[1].op = "Transaction"
      /\ header # None
      /\ reqs # <<>>
      /\ reqs[1].Receipt # None
      /\ reqs[1].Receipt[1].BlockHash # header[1].Hash ) =>
        /\ fpc = "done"
        /\ fres[1].err = ErrBlockOrphaned

\***************************************************************************
\* The trace-concurrency gate: traceSemaphore, a weighted semaphore of
\* capacity maxTraceConcurrency of which a caller takes
\* semaphoreTraceWeight.  Callers are counted by where they stand.
\***************************************************************************
maxTraceConcurrency == 16
semaphoreTraceWeight == 1

MaxCallers == 19
MaxBatch == 2

\* The callers inside a trace fetch.
Callers ==
    waiting + granted + outBlock + outTx
        + SumSeq([ n \in 1..MaxBatch |-> IF n \in DOMAIN outBatch THEN outBatch[n] ELSE 0 ])

\* The trace requests the node has not answered yet.
Outstanding ==
    outBlock + outTx
        + SumSeq([ n \in 1..MaxBatch |-> IF n \in DOMAIN outBatch THEN n * outBatch[n] ELSE 0 ])

BatchCount(n) == IF n \in DOMAIN outBatch THEN outBatch[n] ELSE 0

\* The ways a trace fetch returns once it has its permit: the request
\* failed, the answer did not decode, or all went well.
TraceExits == { "request error", "decode error", "ok" }

\* The weight a trace fetch gives back on its way out, were the release
\* written on the successful path only.
ReleasedOnSuccess(exit) == IF exit = "ok" THEN semaphoreTraceWeight ELSE 0

\* defer ec.traceSemaphore.Release(semaphoreTraceWeight), right after the
\* successful Acquire: it runs on every return.
Released(exit) == semaphoreTraceWeight

\* The queued callers behind the watched one (all of them when the watched
\* caller is not queued).
Behind == waiting - ahead - (IF watched = "waiting" THEN 1 ELSE 0)

\* A semaphore that hands the permit to the caller queued last.
NextWaiterLast(a, w, b) ==
    IF b > 0 THEN "other behind"
    ELSE IF w = "waiting" THEN "watched"
    ELSE "other ahead"

\* semaphore.Weighted: Release hands the permit to the caller at the front
\* of the queue, and Acquire queues at the back.
NextWaiter(a, w, b) ==
    IF a > 0 THEN "other ahead"
    ELSE IF w = "waiting" THEN "watched"
    ELSE "other behind"

InitGate(v) ==
    /\ gvariant = v
    /\ cur = 0
    /\ waiting = 0
    /\ granted = 0
    /\ outBlock = 0
    /\ outTx = 0
    /\ outBatch = EmptyMap
    /\ lastExit = "none"
    /\ watched = "idle"
    /\ ahead = 0
    /\ IdleOps /\ IdleFetch /\ IdleBalance

\* Ethereum getBlockTraces / getTransactionTraces: Acquire finds room and
\* nobody queued, and the request goes out.
AcquireAndSend(kind, who) ==
    /\ gvariant = "ethereum"
    /\ Callers < MaxCallers
    /\ maxTraceConcurrency - cur >= semaphoreTraceWeight
    /\ waiting = 0
    /\ who = "watched" => watched = "idle"
    /\ cur' = cur + semaphoreTraceWeight
    /\ IF kind = "block"
       THEN outBlock' = outBlock + 1 /\ outTx' = outTx
       ELSE outTx' = outTx + 1 /\ outBlock' = outBlock
    /\ watched' = IF who = "watched" THEN kind ELSE watched
    /\ UNCHANGED <<gvariant, waiting, granted, outBatch, lastExit, ahead>>
    /\ UNCHANGED <<opsVars, fetchVars, balVars>>

\* Acquire finds no room, or somebody queued: the caller queues at the back.
AcquireBlocks(who) ==
    /\ gvariant = "ethereum"
    /\ Callers < MaxCallers
    /\ maxTraceConcurrency - cur < semaphoreTraceWeight \/ waiting > 0
    /\ who = "watched" => watched = "idle"
    /\ waiting' = waiting + 1
    /\ IF who = "watched"
       THEN watched' = "waiting" /\ ahead' = waiting
       ELSE UNCHANGED <<watched, ahead>>
    /\ UNCHANGED <<gvariant, cur, granted, outBlock, outTx, outBatch, lastExit>>
    /\ UNCHANGED <<opsVars, fetchVars, balVars>>

\* The context of a queued caller is cancelled: Acquire returns its error,
\* no request is sent and nothing is released.
AcquireCancelled(who) ==
    /\ gvariant = "ethereum"
    /\ waiting > 0
    /\ CASE who = "watched" ->
              /\ watched = "waiting"
              /\ watched' = "cancelled"
              /\ ahead' = 0
         [] who = "other ahead" ->
              /\ ahead > 0
              /\ ahead' = ahead - 1
              /\ watched' = watched
         [] OTHER ->
              /\ Behind > 0
              /\ UNCHANGED <<watched, ahead>>
    /\ waiting' = waiting - 1
    /\ lastExit' = "cancelled"
    /\ UNCHANGED <<gvariant, cur, granted, outBlock, outTx, outBatch>>
    /\ UNCHANGED <<opsVars, fetchVars, balVars>>

\* A caller that was handed a permit sends its request.
SendAfterWait(kind, who) ==
    /\ gvariant = "ethereum"
    /\ IF who = "watched" THEN watched = "granted"
       ELSE granted - (IF watched = "granted" THEN 1 ELSE 0) > 0
    /\ granted' = granted - 1
    /\ IF kind = "block"
       THEN outBlock' = outBlock + 1 /\ outTx' = outTx
       ELSE outTx' = outTx + 1 /\ outBlock' = outBlock
    /\ watched' = IF who = "watched" THEN kind ELSE watched
    /\ UNCHANGED <<gvariant, cur, waiting, outBatch, lastExit, ahead>>
    /\ UNCHANGED <<opsVars, fetchVars, balVars>>

\* The node answers (a result or an error) and the fetch returns by one of
\* its exits: what it releases goes to the next queued caller, if any.
AnswerAndRelease(kind, who, exit) ==
    /\ gvariant = "ethereum"
    /\ IF who = "watched" THEN watched = kind
       ELSE (IF kind = "block" THEN outBlock ELSE outTx)
                - (IF watched = kind THEN 1 ELSE 0) > 0
    /\ IF kind = "block"
       THEN outBlock' = outBlock - 1 /\ outTx' = outTx
       ELSE outTx' = outTx - 1 /\ outBlock' = outBlock
    /\ IF Released(exit) > 0 /\ waiting > 0
       THEN /\ waiting' = waiting - 1
            /\ granted' = granted + 1
            /\ cur' = cur
            /\ LET next == NextWaiter(ahead, watched, Behind)
               IN  /\ ahead' = IF next = "other ahead" THEN ahead - 1
                               ELSE IF next = "watched" THEN 0 ELSE ahead
                   /\ watched' = IF next = "watched" THEN "granted"
                                 ELSE IF who = "watched" THEN "returned"
                                 ELSE watched
       ELSE /\ cur' = cur - Released(exit)
            /\ watched' = IF who = "watched" THEN "returned" ELSE watched
            /\ UNCHANGED <<waiting, granted, ahead>>
    /\ lastExit' = exit
    /\ UNCHANGED <<gvariant, outBatch>>
    /\ UNCHANGED <<opsVars, fetchVars, balVars>>

\* Optimism getTransactionTraces: one batch of debug_traceTransaction, one
\* element per transaction of the block, sent without a permit.
SendBatch(n) ==
    /\ gvariant = "optimism"
    /\ Callers < MaxCallers
    /\ outBatch' = MapPut(outBatch, n, BatchCount(n) + 1)
    /\ UNCHANGED <<gvariant, cur, waiting, granted, outBlock, outTx,
                   lastExit, watched, ahead>>
    /\ UNCHANGED <<opsVars, fetchVars, balVars>>

\* The node answers a batch.
AnswerBatch(n) ==
    /\ gvariant = "optimism"
    /\ BatchCount(n) > 0
    /\ outBatch' = IF BatchCount(n) = 1 THEN MapDelete(outBatch, n)
                   ELSE MapPut(outBatch, n, BatchCount(n) - 1)
    /\ UNCHANGED <<gvariant, cur, waiting, granted, outBlock, outTx,
                   lastExit, watched, ahead>>
    /\ UNCHANGED <<opsVars, fetchVars, balVars>>

Who == { "watched", "other" }

SendsAfterWait == \E kind \in {"block", "tx"}, who \in Who : SendAfterWait(kind, who)

AnswersAndReleases ==
    \E kind \in {"block", "tx"}, who \in Who, exit \in TraceExits :
        AnswerAndRelease(kind, who, exit)

NextGate ==
    \/ \E kind \in {"block", "tx"}, who \in Who : AcquireAndSend(kind, who)
    \/ \E who \in Who : AcquireBlocks(who)
    \/ \E who \in {"watched", "other ahead", "other behind"} : AcquireCancelled(who)
    \/ SendsAfterWait
    \/ AnswersAndReleases
    \/ \E n \in 1..MaxBatch : SendBatch(n)
    \/ \E n \in 1..MaxBatch : AnswerBatch(n)

SpecGate ==
    /\ \E v \in {"ethereum", "optimism"} : InitGate(v)
    /\ [][NextGate]_vars

\* The gate with its scheduling: a caller that was handed a permit goes on
\* to send its request, and the node answers the requests it was sent.
SpecGateLive ==
    /\ SpecGate
    /\ WF_vars(SendsAfterWait)
    /\ WF_vars(AnswersAndReleases)

\***************************************************************************
\* C3: at every moment at most 16 trace requests issued through one
\* client are outstanding at the node (each path that issues one holding a
\* permit of the capacity-16 gate while its request is outstanding).
\***************************************************************************
C3_OutstandingTracesBounded == Outstanding <= maxTraceConcurrency

\***************************************************************************
\* Balance.  The state of an account differs from block to block.
\***************************************************************************
AccountAt(h, a) ==
    [ Balance |-> 10 * h[2] + (IF h[1] = "B" THEN 5 ELSE 0) + (IF a = AddrA THEN 1 ELSE 0),
      Nonce   |-> h[2] + (IF h[1] = "B" THEN 1 ELSE 0),
      Code    |-> IF h[1] = "B" /\ a = AddrB THEN "0x60" ELSE "0x" ]

BalanceRequests ==
    { [ variant |-> v, account |-> a, block |-> b ] :
          v \in {"ethereum", "optimism"},
          a \in Accounts,
          b \in { None }
                \cup { Some([ Hash |-> Some(h), Index |-> None ]) :
                          h \in {<<"A", 1>>, <<"B", 1>>, <<"A", MaxHeight + 1>>} }
                \cup { Some([ Hash |-> None, Index |-> Some(n) ]) : n \in 0..1 }
                \cup { Some([ Hash |-> None, Index |-> None ]) } }

InitBalance(r, nd) ==
    /\ node = nd
    /\ breq = Some(r)
    /\ bpc = IF r.variant = "ethereum" THEN "query" ELSE "getHeader"
    /\ bhead = None
    /\ bres = None
    /\ req = None
    /\ fpc = "idle"
    /\ body = None
    /\ header = None
    /\ reqs = <<>>
    /\ uncles = <<>>
    /\ traces = None
    /\ fres = None
    /\ IdleOps /\ IdleGate

BalanceReturned(blk, a, st) ==
    [ err |-> ErrNone,
      value |-> Some([ Hash |-> blk.Hash, Index |-> blk.Number,
                       Balance |-> st.Balance, Nonce |-> st.Nonce,
                       Code |-> st.Code ]) ]

\* Ethereum: one GraphQL query names the block (by hash, by number, or
\* the latest) and returns its hash, its number and the account in it.
BalanceQuery ==
    /\ bpc = "query"
    /\ \E ok \in BOOLEAN :
          LET b   == breq[1].block
              blk == IF b # None /\ b[1].Hash # None
                         THEN NodeBlockByHash(node, b[1].Hash[1])
                     ELSE IF b # None /\ b[1].Index # None
                         THEN NodeBlockByNumber(node, b[1].Index[1])
                     ELSE NodeLatest(node)
          IN  IF ~ok \/ blk = None
              THEN bres' = Some(Failed(ErrRPC))
              ELSE bres' = Some(BalanceReturned(blk[1], breq[1].account,
                                    AccountAt(blk[1].Hash, breq[1].account)))
    /\ bpc' = "done"
    /\ UNCHANGED <<breq, bhead>>
    /\ UNCHANGED <<node, req, fpc, body, header, reqs, uncles, traces, fres>>
    /\ UNCHANGED <<opsVars, gateVars>>

\* Optimism: the header first, by hash, by number or the latest; an
\* identifier with neither hash nor index sends nothing and finds nothing.
BalanceGetHeader ==
    /\ bpc = "getHeader"
    /\ \E ok \in BOOLEAN :
          LET b   == breq[1].block
              raw == IF b = None THEN NodeLatest(node)
                     ELSE IF b[1].Hash # None
                         THEN NodeBlockByHash(node, b[1].Hash[1])
                     ELSE IF b[1].Index # None
                         THEN NodeBlockByNumber(node, b[1].Index[1])
                     ELSE None
          IN  IF ~ok /\ ~(b # None /\ b[1].Hash = None /\ b[1].Index = None)
              THEN /\ bres' = Some(Failed(ErrRPC))
                   /\ bpc' = "done"
                   /\ bhead' = bhead
              ELSE IF raw = None
              THEN /\ bres' = Some(Failed(ErrNotFound))
                   /\ bpc' = "done"
                   /\ bhead' = bhead
              ELSE /\ bhead' = raw
                   /\ bpc' = "getBatch"
                   /\ bres' = bres
    /\ UNCHANGED <<breq>>
    /\ UNCHANGED <<node, req, fpc, body, header, reqs, uncles, traces, fres>>
    /\ UNCHANGED <<opsVars, gateVars>>

\* Optimism: then one batch of eth_getBalance, eth_getTransactionCount and
\* eth_getCode at the number of that header; the node answers for the block
\* that is canonical at that number when the batch arrives.
BalanceGetBatch ==
    /\ bpc = "getBatch"
    /\ \E ok \in BOOLEAN :
          LET at == NodeBlockByNumber(node, bhead[1].Number)
          IN  IF ~ok \/ at = None
              THEN bres' = Some(Failed(ErrRPC))
              ELSE bres' = Some(BalanceReturned(bhead[1], breq[1].account,
                                    AccountAt(at[1].Hash, breq[1].account)))
    /\ bpc' = "done"
    /\ UNCHANGED <<breq, bhead>>
    /\ UNCHANGED <<node, req, fpc, body, header, reqs, uncles, traces, fres>>
    /\ UNCHANGED <<opsVars, gateVars>>

NextBalance ==
    \/ BalanceQuery
    \/ BalanceGetHeader
    \/ BalanceGetBatch
    \/ Advance
    \/ Reorg

SpecBalance ==
    /\ \E r \in BalanceRequests, b \in Branches :
          InitBalance(r, [branch |-> b, height |-> 1, genesis |-> <<>>])
    /\ [][NextBalance]_vars

\***************************************************************************
\* C4: the balance, the nonce and the code Balance returns are the node's
\* values at the one block whose hash and index the same response carries,
\* whatever the node's head and chain do while the request is served.
\***************************************************************************
C4_BalanceAtReturnedBlock ==
    (bpc = "done" /\ bres[1].err = ErrNone) =>
        LET v  == bres[1].value[1]
            st == AccountAt(v.Hash, breq[1].account)
        IN  /\ v.Index = v.Hash[2]
            /\ v.Balance = st.Balance
            /\ v.Nonce = st.Nonce
            /\ v.Code = st.Code

\***************************************************************************
\* traceOps on longer lists: three traces of the types that touch
\* destroyedAccounts (SELFDESTRUCT, CREATE) or move value (CALL), in the
\* Ethereum client.
\***************************************************************************
MaxLedgerCalls == 3

LedgerTx ==
    [ variant |-> "ethereum", From |-> AddrA, Miner |-> Miner,
      FeeAmount |-> 2, FeeBurned |-> None ]

\* The senders of the traces: the two contracts and an address that is
\* never destroyed.
LedgerSources == Accounts \cup {Miner}

LedgerCalls ==
    { [ Path |-> <<>>, Type |-> ty, From |-> f, To |-> t, Value |-> v,
        Revert |-> (e # ""), ErrorMessage |-> e, Input |-> EmptyInput ] :
        ty \in {SelfDestructOpType, CreateOpType, CallOpType},
        f \in LedgerSources, t \in Accounts,
        v \in 0..MaxValue, e \in {"", "execution reverted"} }

\* The loop meets the next trace of a list that is chosen as it goes.
LedgerOpsIter ==
    /\ pc = "traceOps"
    /\ Len(calls) < MaxLedgerCalls
    /\ \E c \in LedgerCalls :
          /\ calls' = Append(calls, c)
          /\ LoopIteration(c)
    /\ UNCHANGED <<tx, rawTrace, tree, pc, result>>
    /\ UNCHANGED <<fetchVars, gateVars, balVars>>

NextLedger == LedgerOpsIter \/ TraceOpsFinish

SpecLedger == InitOps(LedgerTx) /\ [][NextLedger]_vars

\***************************************************************************
\* C11: for every SELFDESTRUCT trace whose source and destination are the
\* same address, no "to" operation is emitted for the trace and the
\* address's entry in destroyedAccounts is exactly zero right after it,
\* whatever it was before.
\***************************************************************************
SelfDestructToSelf(c) ==
    c.Type = SelfDestructOpType /\ MustChecksum(c.From) = MustChecksum(c.To)

C11_SelfDestructToSelfResets ==
    (i > 0 /\ pc = "traceOps" /\ SelfDestructToSelf(calls[i])) =>
        /\ ~ \E k \in DOMAIN ops : prov[k].trace = i /\ prov[k].role = "to"
        /\ MustChecksum(calls[i].From) \in DOMAIN ledger
        /\ ledger[MustChecksum(calls[i].From)] = 0

\* An address destroyed, then credited 1, then destroying itself into
\* itself without value: its entry was 1 and is 0.
C11_Witness ==
    /\ i = 3
    /\ pc = "traceOps"
    /\ calls[1].Type = SelfDestructOpType /\ calls[1].From = AddrA
    /\ calls[1].To = AddrB
    /\ calls[2].Type = CallOpType /\ calls[2].To = AddrA /\ calls[2].Value = 1
    /\ ~calls[2].Revert
    /\ SelfDestructToSelf(calls[3]) /\ calls[3].From = AddrA
    /\ calls[3].Value = 0
    /\ ledger[MustChecksum(AddrA)] = 0

\***************************************************************************
\* C12: a CREATE or CREATE2 trace whose destination is marked destroyed
\* clears the marking before its "to" operation is handled: the created
\* value is not accumulated, and no synthetic DESTRUCT operation is emitted
\* for the address unless a later trace of the transaction destroys it again.
\***************************************************************************
C12_ResurrectionClears ==
    /\ (i > 0 /\ pc = "traceOps" /\ CreateType(calls[i].Type)) =>
          MustChecksum(calls[i].To) \notin DOMAIN ledger
    /\ pc = "done" =>
          \A k \in DOMAIN ops :
              prov[k].role = "destruct" =>
                  \A j \in 1..i :
                      ( /\ CreateType(calls[j].Type)
                        /\ MustChecksum(calls[j].To) = ops[k].Account ) =>
                          LastMark(ops[k].Account) > j

\* An address destroyed, credited 1 and then created again with value 1:
\* the "to" operation of the CREATE is there, the DESTRUCT operation is not.
C12_Witness ==
    /\ pc = "done"
    /\ i = 3
    /\ calls[1].Type = SelfDestructOpType /\ calls[1].From = AddrA
    /\ calls[1].To = AddrB
    /\ calls[2].Type = CallOpType /\ calls[2].To = AddrA /\ calls[2].Value = 1
    /\ ~calls[2].Revert
    /\ calls[3].Type = CreateOpType /\ calls[3].To = AddrA /\ calls[3].Value = 1
    /\ ~calls[3].Revert
    /\ \E k \in DOMAIN ops : prov[k].trace = 3 /\ prov[k].role = "to"
    /\ ~ \E k \in DOMAIN ops : prov[k].role = "destruct"

\***************************************************************************
\* C13: if an entry of destroyedAccounts is negative when the pass over
\* the traces ends, synthesis ends the process (fatal) and returns no
\* operation list; a negative entry is never clamped to zero, skipped or
\* turned into a DESTRUCT operation.
\***************************************************************************
C13_NegativeEntryIsFatal ==
    /\ pc = "done" => \A a \in DOMAIN ledger : ledger[a] >= 0
    /\ pc = "fatal" =>
          /\ result = None
          /\ \E a \in DOMAIN ledger : ledger[a] < 0
          /\ ~ \E k \in DOMAIN ops : prov[k].role = "destruct"
    /\ (NegativeEntry(ledger) /\ i = Len(calls)) => pc \in {"traceOps", "fatal"}

\* A destroyed address that went on to send value: its entry is -1 and the
\* process has ended without a result.
C13_Witness ==
    /\ pc = "fatal"
    /\ result = None
    /\ calls[1].Type = SelfDestructOpType
    /\ \E a \in DOMAIN ledger : ledger[a] = 0 - 1

\***************************************************************************
\* Fees: calculateGas and effectiveGasPrice (Ethereum client), then the
\* fee operations of the loaded transaction.
\***************************************************************************
MaxPrice == 3

eip1559TxType == 2

Min(a, b) == IF a <= b THEN a ELSE b

\* Transaction.EffectiveGasTip of the go-ethereum library: the tip cap
\* without a base fee; else min(tipCap, feeCap - baseFee), with an error
\* when the fee cap is below the base fee.
EffectiveGasTip(t, baseFee) ==
    IF baseFee = None THEN [ tip |-> t.GasTipCap, err |-> FALSE ]
    ELSE [ tip |-> Min(t.GasTipCap, t.GasFeeCap - baseFee[1]),
           err |-> t.GasFeeCap < baseFee[1] ]

effectiveGasPriceTipOnly(t, baseFee) ==
    IF t.Type # eip1559TxType THEN [ out |-> "ok", price |-> t.GasPrice ]
    ELSE IF EffectiveGasTip(t, baseFee).err THEN [ out |-> "error", price |-> 0 ]
    ELSE IF baseFee = None THEN [ out |-> "panic", price |-> 0 ]
    ELSE [ out |-> "ok", price |-> EffectiveGasTip(t, baseFee).tip ]

\* effectiveGasPrice.  Adding a nil base fee dereferences nil.
effectiveGasPrice(t, baseFee) ==
    IF t.Type # eip1559TxType THEN [ out |-> "ok", price |-> t.GasPrice ]
    ELSE IF EffectiveGasTip(t, baseFee).err THEN [ out |-> "error", price |-> 0 ]
    ELSE IF baseFee = None THEN [ out |-> "panic", price |-> 0 ]
    ELSE [ out |-> "ok", price |-> EffectiveGasTip(t, baseFee).tip + baseFee[1] ]

\* calculateGas: the fee and, with a base fee, the burned part of it.
calculateGas(t, gasUsed, baseFee) ==
    LET gasPrice == effectiveGasPrice(t, baseFee)
    IN  [ out |-> gasPrice.out,
          feeAmount |-> gasUsed * gasPrice.price,
          feeBurned |-> IF baseFee = None THEN None
                        ELSE Some(gasUsed * baseFee[1]) ]

Prices == 0..MaxPrice \cup {10000}

GasUseds == {0, 1, 21000}

\* The transactions of a block, with their receipt's gas and the header's
\* base fee; the miner may be the sender.  A legacy or access-list
\* transaction has one price, which is
\* also its tip and fee cap; a fee-market transaction reports its fee cap
\* as its price.
FeeTxs ==
    { [ variant |-> "ethereum", From |-> AddrA, Miner |-> m,
        Type |-> ty, GasPrice |-> p, GasTipCap |-> p, GasFeeCap |-> p,
        GasUsed |-> g, BaseFee |-> b, FeeAmount |-> 0, FeeBurned |-> None ] :
        m \in {Miner, AddrA}, ty \in {0, 1}, p \in Prices, g \in GasUseds,
        b \in {None} \cup { Some(x) : x \in 0..MaxPrice } }
    \cup
    { [ variant |-> "ethereum", From |-> AddrA, Miner |-> m,
        Type |-> eip1559TxType, GasPrice |-> c, GasTipCap |-> tp, GasFeeCap |-> c,
        GasUsed |-> g, BaseFee |-> b, FeeAmount |-> 0, FeeBurned |-> None ] :
        m \in {Miner, AddrA}, tp \in 0..MaxPrice, c \in 0..MaxPrice, g \in GasUseds,
        b \in {None} \cup { Some(x) : x \in 0..MaxPrice } }

\* The trace of a call that moves no value: one flattened entry, no
\* operation.
PlainCall ==
    [ Path |-> <<>>, Type |-> CallOpType, From |-> AddrA, To |-> AddrB,
      Value |-> 0, Revert |-> FALSE, ErrorMessage |-> "", Input |-> EmptyInput ]

InitFees(t) ==
    /\ tx = t
    /\ rawTrace = None
    /\ tree = None
    /\ calls = << PlainCall >>
    /\ i = 0
    /\ ops = <<>>
    /\ prov = <<>>
    /\ ledger = EmptyMap
    /\ reached = {}
    /\ pc = "calculateGas"
    /\ result = None
    /\ IdleFetch /\ IdleGate /\ IdleBalance

\* getBlock / Transaction: the fee of the transaction is computed and
\* stored in the loaded transaction; an error ends the fetch.
CalculateGas ==
    /\ pc = "calculateGas"
    /\ LET r == calculateGas(tx, tx.GasUsed, tx.BaseFee)
       IN  IF r.out = "ok"
           THEN /\ tx' = [tx EXCEPT !.FeeAmount = r.feeAmount,
                                    !.FeeBurned = r.feeBurned]
                /\ pc' = "traceOps"
           ELSE /\ tx' = tx
                /\ pc' = r.out
    /\ UNCHANGED <<rawTrace, tree, calls, i, ops, prov, ledger, reached, result>>
    /\ UNCHANGED <<fetchVars, gateVars, balVars>>

NextFees == CalculateGas \/ TraceOpsNext \/ TraceOpsFinish

SpecFees == (\E t \in FeeTxs : InitFees(t)) /\ [][NextFees]_vars

\* The effective gas price as the specification words it (defined when a
\* fee-market transaction meets a base fee).
StatedGasPrice(t) ==
    IF t.Type # eip1559TxType THEN t.GasPrice
    ELSE Min(t.GasTipCap, t.GasFeeCap - t.BaseFee[1]) + t.BaseFee[1]

StatedFee(t) == t.GasUsed * StatedGasPrice(t)

StatedBurn(t) == IF t.BaseFee = None THEN 0 ELSE t.GasUsed * t.BaseFee[1]

\***************************************************************************
\* C14 as stated: fee operation 0 debits the sender by exactly
\* gasUsed x effectiveGasPrice, with or without a base fee.
\***************************************************************************
C14_Op0DebitsWholeFee ==
    pc = "done" =>
        /\ result[1][1].Account = MustChecksum(tx.From)
        /\ result[1][1].Amount = Some(0 - StatedFee(tx))

\* C14 amended: fee operation 0 debits the sender by
\* gasUsed x effectiveGasPrice less the burned amount (gasUsed x baseFee
\* when the block has a base fee, nothing otherwise).
C14_Op0DebitsMinerShare ==
    pc = "done" =>
        /\ result[1][1].Index = 0
        /\ result[1][1].Type = FeeOpType
        /\ result[1][1].Account = MustChecksum(tx.From)
        /\ result[1][1].Amount = Some(0 - (StatedFee(tx) - StatedBurn(tx)))

\* A fee-market transaction in a block with base fee 2: 21000 gas at
\* price 3, of which operation 0 debits 21000.
C14_Witness ==
    /\ pc = "done"
    /\ tx.Type = eip1559TxType
    /\ tx.BaseFee = Some(2)
    /\ tx.GasUsed = 21000
    /\ tx.GasTipCap = 1 /\ tx.GasFeeCap = 3
    /\ result[1][1].Amount = Some(0 - 21000)

TipUndefined(t) ==
    t.Type = eip1559TxType /\ t.BaseFee # None /\ t.GasFeeCap < t.BaseFee[1]

C16_EffectiveGasPrice ==
    /\ pc \in {"traceOps", "done"} =>
          /\ ~TipUndefined(tx)
          /\ effectiveGasPrice(tx, tx.BaseFee).price = StatedGasPrice(tx)
          /\ tx.FeeAmount = tx.GasUsed * StatedGasPrice(tx)
    /\ pc = "error" =>
          /\ TipUndefined(tx)
          /\ tx.FeeAmount = 0 /\ tx.FeeBurned = None
          /\ result = None
    /\ TipUndefined(tx) => pc \in {"calculateGas", "error"}

\* A fee-market transaction whose fee cap, not its tip cap, bounds the tip:
\* min(3, 3 - 1) + 1 = 3.
C16_Witness ==
    /\ pc = "traceOps"
    /\ tx.Type = eip1559TxType
    /\ tx.BaseFee = Some(1)
    /\ tx.GasTipCap = 3 /\ tx.GasFeeCap = 3
    /\ tx.GasUsed = 21000
    /\ tx.FeeAmount = 63000


\***************************************************************************
\* The reward transactions of blocks of every height and uncle list
\***************************************************************************
\* The chain configurations: both forks, one fork, none.
ChainConfigs ==
    { [ ByzantiumBlock |-> Some(2), ConstantinopleBlock |-> Some(4) ],
      [ ByzantiumBlock |-> Some(3), ConstantinopleBlock |-> None ],
      [ ByzantiumBlock |-> None, ConstantinopleBlock |-> None ] }

\* The uncle headers a block of the given height can carry.
UncleHeaders(index) ==
    { [ Number |-> n, Coinbase |-> m ] :
        n \in { x \in 0..MaxRewardHeight :
                  x < index /\ index - x <= MaxUncleDistance },
        m \in Accounts }

UncleLists(index) ==
    UNION { [ 1..n -> UncleHeaders(index) ] : n \in 0..MaxUncles }

RewardBlocks ==
    UNION { { [ p |-> p, Index |-> h, Hash |-> <<"A", h>>, Coinbase |-> Miner,
                Uncles |-> u ] :
                p \in ChainConfigs, u \in UncleLists(h) } :
            h \in 0..MaxRewardHeight }

InitRewards(b) ==
    /\ tx = b
    /\ rawTrace = None
    /\ tree = None
    /\ calls = <<>>
    /\ i = 0
    /\ ops = <<>>
    /\ prov = <<>>
    /\ ledger = EmptyMap
    /\ reached = {}
    /\ pc = "blockRewardTransaction"
    /\ result = None
    /\ IdleFetch /\ IdleGate /\ IdleBalance

BlockRewardTransaction ==
    /\ pc = "blockRewardTransaction"
    /\ result' = Some(blockRewardTransaction(
                        tx.p, [ Index |-> tx.Index, Hash |-> tx.Hash ],
                        tx.Coinbase, tx.Uncles))
    /\ pc' = "done"
    /\ UNCHANGED <<tx, rawTrace, tree, calls, i, ops, prov, ledger, reached>>
    /\ UNCHANGED <<fetchVars, gateVars, balVars>>

NextRewards == BlockRewardTransaction

SpecRewards == (\E b \in RewardBlocks : InitRewards(b)) /\ [][NextRewards]_vars

\* The base reward as the forks fix it.
StatedBaseReward ==
    IF tx.p.ConstantinopleBlock # None /\ tx.Index >= tx.p.ConstantinopleBlock[1]
    THEN ConstantinopleBlockReward
    ELSE IF tx.p.ByzantiumBlock # None /\ tx.Index >= tx.p.ByzantiumBlock[1]
    THEN ByzantiumBlockReward
    ELSE FrontierBlockReward

\***************************************************************************
\* C17: for every block height and uncle list, the reward transaction
\* credits the block's miner with the base reward R of the fork in force
\* plus numUncles/32 of R, and each uncle's miner with
\* (uncleHeight + 8 - blockHeight) x (R/8); the operations carry the
\* indices 0..numUncles in that order.
\***************************************************************************
C17_RewardAmounts ==
    (pc = "done" /\ result # None /\ "p" \in DOMAIN tx) =>
        LET o == result[1].Operations
            R == StatedBaseReward
            n == Len(tx.Uncles)
        IN  /\ Len(o) = n + 1
            /\ \A k \in 1..Len(o) : o[k].Index = k - 1
            /\ o[1].Type = MinerRewardOpType
            /\ o[1].Account = MustChecksum(tx.Coinbase)
            /\ 32 * (o[1].Amount[1] - R) = n * R
            /\ \A k \in 1..n :
                  /\ o[k + 1].Type = UncleRewardOpType
                  /\ o[k + 1].Account = MustChecksum(tx.Uncles[k].Coinbase)
                  /\ 8 * o[k + 1].Amount[1] =
                        (tx.Uncles[k].Number + 8 - tx.Index) * R

\* A Byzantium block with two uncles of different heights and miners.
C17_Witness ==
    /\ pc = "done"
    /\ result # None
    /\ "p" \in DOMAIN tx
    /\ StatedBaseReward = ByzantiumBlockReward
    /\ Len(tx.Uncles) = 2
    /\ tx.Uncles[1].Number # tx.Uncles[2].Number
    /\ tx.Uncles[1].Coinbase # tx.Uncles[2].Coinbase
    /\ result[1].Operations[1].Amount[1] = 102


\***************************************************************************
\* Assembled blocks (SpecFetch)
\***************************************************************************
\* A Block request has returned a block.
BlockReturned ==
    /\ req # None
    /\ req[1].op = "Block"
    /\ fpc = "done"
    /\ fres[1].err = ErrNone

\* t is the reward transaction of the block b.
IsRewardTransaction(t, b) ==
    /\ "Operations" \in DOMAIN t
    /\ t.Hash = b.Hash
    /\ t.Operations[1].Type = MinerRewardOpType
    /\ t.Operations[1].Account = MustChecksum(b.Coinbase)

\* The list T holds one canonical transaction per transaction of txs, in
\* the same order.
FollowsBody(T, txs) ==
    /\ Len(T) = Len(txs)
    /\ \A k \in DOMAIN txs :
          /\ "Trace" \in DOMAIN T[k]
          /\ T[k].Hash = txs[k]
          /\ T[k].Trace = TraceOf(txs[k])

RewardThenBody(T, b) ==
    /\ Len(T) = Len(b.Transactions) + 1
    /\ IsRewardTransaction(T[1], b)
    /\ FollowsBody(Tail(T), b.Transactions)

\***************************************************************************
\* C18: every assembled block's transaction list consists of the reward
\* transaction at position 0 followed by exactly one canonical transaction
\* per transaction of the node's block body, in the order of that body.
\***************************************************************************
C18_RewardThenBodyOrder ==
    BlockReturned =>
        RewardThenBody(fres[1].value[1].Transactions, body[1])

\* C18 as it holds: the list of the Ethereum client is the reward
\* transaction followed by the canonical transactions in the order of the
\* body; the list of the Optimism client, which has no reward transaction,
\* is the canonical transactions in the order of the body.
C18_BodyOrderPerClient ==
    BlockReturned =>
        IF req[1].variant = "ethereum"
        THEN RewardThenBody(fres[1].value[1].Transactions, body[1])
        ELSE FollowsBody(fres[1].value[1].Transactions, body[1].Transactions)

\* The Ethereum client has assembled a block of two transactions.
C18_Witness ==
    /\ BlockReturned
    /\ req[1].variant = "ethereum"
    /\ body[1].Transactions = <<"t1", "t2">>
    /\ Len(fres[1].value[1].Transactions) = 3

\* A Block request has fetched the block of index 0.
GenesisFetch ==
    /\ req # None
    /\ req[1].op = "Block"
    /\ body # None
    /\ body[1].Number = GenesisBlockIndex

\* The header that came with the body agrees with it on whether there are
\* uncles and transactions.
HeaderAgrees ==
    /\ header # None
    /\ header[1] = HeadOf(body[1])

\* The receipt of every transaction of the body has come back and names
\* the block.
ReceiptsGathered ==
    /\ Len(reqs) = Len(body[1].Transactions)
    /\ ReceiptsLoop(body[1].Hash, reqs, 1) = ErrNone

\***************************************************************************
\* C19: for the block at index 0 a block fetch skips the trace stage
\* entirely (no permit acquired, no trace request issued) and still returns
\* the assembled block rather than an error, whatever transactions the
\* node reports for that block.
\***************************************************************************
C19_GenesisReturnsBlock ==
    GenesisFetch =>
        /\ traces = None
        /\ (fpc = "done" /\ HeaderAgrees /\ ReceiptsGathered) =>
              /\ fres[1].err = ErrNone
              /\ fres[1].value # None

\* The same for a genesis block without transactions.
C19_EmptyGenesisReturnsBlock ==
    (GenesisFetch /\ body[1].Transactions = <<>>) =>
        /\ traces = None
        /\ (fpc = "done" /\ HeaderAgrees) =>
              /\ fres[1].err = ErrNone
              /\ fres[1].value # None

C19_EmptyGenesisWitness ==
    /\ GenesisFetch
    /\ body[1].Transactions = <<>>
    /\ fpc = "done"
    /\ fres[1].err = ErrNone
    /\ Len(fres[1].value[1].Transactions) = 1

\***************************************************************************
\* Batched node calls (SpecFetch): the receipts, the uncles and the
\* Optimism client's traces of a Block request.
\***************************************************************************
BatchKinds == {"receipts", "uncles", "traces"}

BatchOf(kind) ==
    IF kind = "receipts" THEN reqs
    ELSE IF kind = "uncles" THEN uncles
    ELSE IF traces = None THEN <<>>
    ELSE traces[1].Answers

ResultOf(kind, elem) ==
    IF kind = "receipts" THEN elem.Receipt
    ELSE IF kind = "uncles" THEN elem.Header
    ELSE elem.Trace

ElementFailed(kind) == \E k \in DOMAIN BatchOf(kind) : BatchOf(kind)[k].Error

\* The element is answered as the loop wants it.
ElementOk(kind, k) ==
    LET elem == BatchOf(kind)[k]
    IN  /\ ~elem.Error
        /\ ResultOf(kind, elem) # None
        /\ kind = "receipts" => ResultOf(kind, elem)[1].BlockHash = body[1].Hash

FirstFailing(kind) ==
    CHOOSE k \in DOMAIN BatchOf(kind) :
        /\ ~ElementOk(kind, k)
        /\ \A j \in 1..(k - 1) : ElementOk(kind, j)

\* The failure of an element: its own error when it reported one.
FailureOf(kind, k) ==
    LET elem == BatchOf(kind)[k]
    IN  IF elem.Error THEN ElemError(k)
        ELSE IF ResultOf(kind, elem) # None THEN ErrBlockOrphaned
        ELSE IF kind = "receipts" THEN ErrEmptyReceipt
        ELSE IF kind = "uncles" THEN ErrNullHeader
        ELSE ErrEmptyTrace

\***************************************************************************
\* C20: for every batched node call (receipts, uncles, batched traces), if
\* any element of the batch reports an error then the whole call fails and
\* the error returned is that element's own underlying error, never a
\* generic batch error and never a partial result.
\***************************************************************************
C20_ElementErrorReturned ==
    (req # None /\ req[1].op = "Block") =>
        \A kind \in BatchKinds :
            ElementFailed(kind) =>
                /\ fpc = "done"
                /\ fres[1].value = None
                /\ \E k \in DOMAIN BatchOf(kind) :
                      /\ BatchOf(kind)[k].Error
                      /\ fres[1].err = ElemError(k)

\* C20 as it holds: if any element of the batch reports an error, the
\* whole call fails without a partial result, and the error returned is
\* the failure of the first element, in the order of the batch, that is
\* not answered as wanted: that element's own error when it reported one,
\* never the error of the batch as a whole.
C20_FirstFailureReturned ==
    (req # None /\ req[1].op = "Block") =>
        \A kind \in BatchKinds :
            ElementFailed(kind) =>
                /\ fpc = "done"
                /\ fres[1].value = None
                /\ fres[1].err = FailureOf(kind, FirstFailing(kind))
                /\ fres[1].err # ErrRPC
                /\ BatchOf(kind)[FirstFailing(kind)].Error =>
                      fres[1].err = ElemError(FirstFailing(kind))

\* The second receipt of a batch came back with an error, behind a first
\* that was fine.
C20_Witness ==
    /\ req # None
    /\ req[1].op = "Block"
    /\ Len(reqs) = 2
    /\ ~reqs[1].Error
    /\ reqs[2].Error
    /\ fpc = "done"
    /\ fres[1].err = ElemError(2)

\***************************************************************************
\* The services: the endpoints of the construction, account and call
\* services over the node client.  tx is the service's configuration,
\* the caller's intent and the request at hand, pc the endpoint the
\* caller calls next, result the responses so far (by endpoint) and
\* reached the statements the endpoints went through.
\***************************************************************************

\* configuration.Mode
Online == "ONLINE"
Offline == "OFFLINE"
Modes == { Online, Offline }

\* The chain ids of the configured networks (mainnet and a test network).
ChainIDs == { 1, 3 }

ErrUnavailableOffline == "Endpoint unavailable offline"
ErrGeth == "geth error"
ErrUnclearIntent == "Unable to parse intent"
ErrUnableToParseIntermediateResult == "Unable to parse intermediate result"
ErrSignatureInvalid == "Signature invalid"
ErrBroadcastFailed == "Unable to broadcast transaction"
ErrCallParametersInvalid == "Call parameters invalid"
ErrCallOutputMarshal == "Call output marshal failed"
ErrCallMethodInvalid == "Call method invalid"
ErrInvalidAddress == "Invalid address"

\* What an endpoint did besides answering: it read its request, it
\* called the node client.
ReadRequest == "request"
CalledClient == "client"

Answer(r, did) == [ err |-> r.err, value |-> r.value, did |-> did ]

\* A text that does not decode (a JSON text is Some(value) otherwise).
Malformed == None

\* hexutil.EncodeBig / EncodeUint64 and their decoders: a number travels
\* as a hex string, which the decoder accepts only with its 0x prefix.
EncodeBig(n) == << "0x", n >>
DecodeBig(w) == IF Len(w) = 2 /\ w[1] = "0x" THEN Some(w[2]) ELSE None

\* int64 arithmetic.  Amounts of wei are counted in units of 2^40 wei here,
\* so that the 2^64 values of an int64 are the 2^24 values below; a
\* multiplication by a plain number wraps in units exactly as it does in
\* wei, for every amount that is a whole number of units.
Int64Modulus == 2 ^ (64 - 40)
MaxInt64 == (Int64Modulus \div 2) - 1

\* big.Int.Int64 and the wrap-around of an int64 result: the low 64 bits,
\* read as a two's complement number.
Int64(x) ==
    LET m == x % Int64Modulus
    IN  IF m > MaxInt64 THEN m - Int64Modulus ELSE m

TransferGasLimit == 21000

\* The largest gas price whose fee fits an int64.
MaxExactGasPrice == MaxInt64 \div TransferGasLimit

\* The gas prices the node suggests (eth_gasPrice answers a number of up to
\* 256 bits).
GasPrices ==
    { 0, 1, MaxExactGasPrice, MaxExactGasPrice + 1, 2 * MaxExactGasPrice,
      Int64Modulus + 1 }

Nonces == { 0, 1 }

\* The suggested fee of ConstructionMetadata, as a big.Int product.
SuggestedFeeExact(gasPrice) == gasPrice * TransferGasLimit

\* suggestedFee := metadata.GasPrice.Int64() * ethereum.TransferGasLimit
SuggestedFee(gasPrice) == Int64(Int64(gasPrice) * TransferGasLimit)

\* The metadata map: nonce and gas price in hex.
MarshalMetadata(nonce, gasPrice) ==
    Some([ nonce |-> EncodeBig(nonce), gas_price |-> EncodeBig(gasPrice) ])

UnmarshalMetadata(text) ==
    IF text = Malformed THEN None
    ELSE IF DecodeBig(text[1].nonce) = None
            \/ DecodeBig(text[1].gas_price) = None THEN None
    ELSE Some([ Nonce |-> DecodeBig(text[1].nonce)[1],
                GasPrice |-> DecodeBig(text[1].gas_price)[1] ])

\* The options map of ConstructionPreprocess.
MarshalOptions(from) == Some([ from |-> from ])
UnmarshalOptions(text) ==
    IF text = Malformed THEN None ELSE Some([ From |-> text[1].from ])

\* ConstructionMetadata with the mode checked after the options are read
\* and the node asked.
ConstructionMetadataGateLast(mode, options, nonceOut, priceOut) ==
    IF UnmarshalOptions(options) = None
    THEN Answer(Failed(ErrUnableToParseIntermediateResult), { ReadRequest })
    ELSE IF mode # Online
    THEN Answer(Failed(ErrUnavailableOffline), { ReadRequest, CalledClient })
    ELSE IF nonceOut = None \/ priceOut = None
    THEN Answer(Failed(ErrGeth), { ReadRequest, CalledClient })
    ELSE Answer(Returned([ Metadata |-> MarshalMetadata(nonceOut[1], priceOut[1]),
                           SuggestedFee |-> SuggestedFee(priceOut[1]) ]),
                { ReadRequest, CalledClient })

\* ConstructionMetadata: nonceOut and priceOut are the node's answers to
\* PendingNonceAt and SuggestGasPrice (None: an error).
ConstructionMetadata(mode, options, nonceOut, priceOut) ==
    IF mode # Online
    THEN Answer(Failed(ErrUnavailableOffline), {})
    ELSE IF UnmarshalOptions(options) = None
    THEN Answer(Failed(ErrUnableToParseIntermediateResult), { ReadRequest })
    ELSE IF nonceOut = None \/ priceOut = None
    THEN Answer(Failed(ErrGeth), { ReadRequest, CalledClient })
    ELSE Answer(Returned([ Metadata |-> MarshalMetadata(nonceOut[1], priceOut[1]),
                           SuggestedFee |-> SuggestedFee(priceOut[1]) ]),
                { ReadRequest, CalledClient })

\* The written forms of the addresses of the transfers: any mix of cases is
\* a hex address, the checksum form is one of them.
ZeroAddress == "0x00"
StrangerAddress == "0x11"
FormsOfA == { "0xaa", "0xAa", "0xAA" }
FormsOfB == { "0xbb", "0xBb", "0xBB" }

\* common.IsHexAddress, common.HexToAddress and Address.Hex
IsHexAddress(s) ==
    s \in FormsOfA \cup FormsOfB \cup { ZeroAddress, StrangerAddress }
HexToAddress(s) ==
    CASE s \in FormsOfA -> AddrA
      [] s \in FormsOfB -> AddrB
      [] s = StrangerAddress -> StrangerAddress
      [] OTHER -> ZeroAddress

\* ethereum.ChecksumAddress with its ok flag: NewMixedcaseAddressFromString
\* accepts a hex address in any mix of cases, Address().Hex() answers the
\* checksum form.
ChecksumAddressOk(address) ==
    IF IsHexAddress(address)
    THEN [ ok |-> TRUE, address |-> Hex(HexToAddress(address)) ]
    ELSE [ ok |-> FALSE, address |-> "" ]

\* An operation of an intent.
Operation(index, type, address, value) ==
    [ Index |-> index, Type |-> type, Address |-> address, Value |-> value ]

\* parser.MatchOperations with the two descriptions of the construction
\* service (a CALL with a negative amount, a CALL with a positive amount,
\* ErrUnmatched): every operation meets a description of its own and every
\* description is met, in whichever order the operations come.  The
\* descriptions ask nothing of the two amounts together.
MatchOperations(operations) ==
    LET neg == { k \in DOMAIN operations :
                    operations[k].Type = CallOpType /\ operations[k].Value < 0 }
        pos == { k \in DOMAIN operations :
                    operations[k].Type = CallOpType /\ operations[k].Value > 0 }
    IN  IF Len(operations) = 2 /\ Cardinality(neg) = 1 /\ Cardinality(pos) = 1
        THEN Some(<< operations[CHOOSE k \in neg : TRUE],
                     operations[CHOOSE k \in pos : TRUE] >>)
        ELSE None

\* ConstructionPreprocess
ConstructionPreprocess(operations) ==
    LET matches == MatchOperations(operations)
    IN  IF matches = None
        THEN Answer(Failed(ErrUnclearIntent), { ReadRequest })
        ELSE LET fromAdd == matches[1][1].Address
                 toAdd == matches[1][2].Address
             IN  IF ~ChecksumAddressOk(fromAdd).ok \/ ~ChecksumAddressOk(toAdd).ok
                 THEN Answer(Failed(ErrInvalidAddress), { ReadRequest })
                 ELSE Answer(Returned([ Options |->
                          MarshalOptions(ChecksumAddressOk(fromAdd).address) ]),
                          { ReadRequest })

\* The transaction struct of the service and its JSON text.
MarshalTransaction(t) ==
    Some([ from |-> t.From, to |-> t.To, value |-> EncodeBig(t.Value),
           data |-> t.Data, nonce |-> EncodeBig(t.Nonce),
           gas_price |-> EncodeBig(t.GasPrice), gas |-> EncodeBig(t.GasLimit),
           chain_id |-> EncodeBig(t.ChainID) ])

UnmarshalTransaction(text) ==
    IF text = Malformed THEN None
    ELSE LET w == text[1]
         IN  IF "chain_id" \notin DOMAIN w THEN None
             ELSE IF \E n \in { w.value, w.nonce, w.gas_price, w.gas, w.chain_id } :
                    DecodeBig(n) = None
             THEN None
             ELSE Some([ From |-> w.from, To |-> w.to,
                         Value |-> DecodeBig(w.value)[1], Data |-> w.data,
                         Nonce |-> DecodeBig(w.nonce)[1],
                         GasPrice |-> DecodeBig(w.gas_price)[1],
                         GasLimit |-> DecodeBig(w.gas)[1],
                         ChainID |-> DecodeBig(w.chain_id)[1] ])

\* ethTypes.NewTransaction: a legacy transaction without a signature.
NewTransaction(nonce, to, amount, gasLimit, gasPrice, data) ==
    [ Nonce |-> nonce, To |-> to, Value |-> amount, Gas |-> gasLimit,
      GasPrice |-> gasPrice, Data |-> data, Signature |-> None,
      ChainID |-> 0 ]

\* EIP155Signer.Hash: the hash to sign covers the six fields and the chain.
SigHash(t, chainID) ==
    [ Nonce |-> t.Nonce, To |-> t.To, Value |-> t.Value, Gas |-> t.Gas,
      GasPrice |-> t.GasPrice, Data |-> t.Data, ChainID |-> chainID ]

\* A signature of 65 bytes: the key that made it and the hash it signed.
Signature(key, hash) == Some([ Key |-> key, Hash |-> hash ])

\* Transaction.WithSignature: the signature must have 65 bytes; V carries
\* the chain id of the signer.
WithSignature(t, chainID, sig) ==
    IF sig = Malformed THEN None
    ELSE Some([ t EXCEPT !.Signature = sig, !.ChainID = chainID ])

\* Transaction.AsMessage(...).From(): the address recovered from the
\* signature and the hash of the transaction; the signer's address when
\* the signature is over that hash, some other address if not.
Sender(t) ==
    IF t.Signature[1].Hash = SigHash(t, t.ChainID)
    THEN t.Signature[1].Key
    ELSE StrangerAddress

\* Transaction.MarshalJSON / UnmarshalJSON of a signed transaction.
MarshalSigned(t) ==
    Some([ nonce |-> EncodeBig(t.Nonce), gasPrice |-> EncodeBig(t.GasPrice),
           gas |-> EncodeBig(t.Gas), to |-> t.To, value |-> EncodeBig(t.Value),
           input |-> t.Data, vrs |-> t.Signature, chain |-> t.ChainID ])

UnmarshalSigned(text) ==
    IF text = Malformed THEN None
    ELSE LET w == text[1]
         IN  IF "vrs" \notin DOMAIN w THEN None
             ELSE IF w.vrs = None
                     \/ \E n \in { w.nonce, w.gasPrice, w.gas, w.value } :
                           DecodeBig(n) = None
             THEN None
             ELSE Some([ Nonce |-> DecodeBig(w.nonce)[1], To |-> w.to,
                         Value |-> DecodeBig(w.value)[1],
                         Gas |-> DecodeBig(w.gas)[1],
                         GasPrice |-> DecodeBig(w.gasPrice)[1],
                         Data |-> w.input, Signature |-> w.vrs,
                         ChainID |-> w.chain ])

EcdsaRecovery == "ecdsa_recovery"
TransferData == <<>>

\* ConstructionPayloads with the payload signed by the receiver.
ConstructionPayloadsSignerTo(chainID, operations, metadataText) ==
    LET matches == MatchOperations(operations)
        md == UnmarshalMetadata(metadataText)
    IN  IF matches = None
        THEN Answer(Failed(ErrUnclearIntent), { ReadRequest })
        ELSE IF md = None
        THEN Answer(Failed(ErrUnableToParseIntermediateResult), { ReadRequest })
        ELSE LET amount == matches[1][2].Value
                 checkFrom == ChecksumAddressOk(matches[1][1].Address)
                 checkTo == ChecksumAddressOk(matches[1][2].Address)
                 t == NewTransaction(md[1].Nonce, HexToAddress(checkTo.address),
                          amount, TransferGasLimit, md[1].GasPrice, TransferData)
                 unsignedTx ==
                     [ From |-> checkFrom.address, To |-> checkTo.address,
                       Value |-> amount, Data |-> t.Data, Nonce |-> t.Nonce,
                       GasPrice |-> md[1].GasPrice, GasLimit |-> t.Gas,
                       ChainID |-> chainID ]
                 payload ==
                     [ AccountIdentifier |-> checkTo.address,
                       Bytes |-> SigHash(t, chainID),
                       SignatureType |-> EcdsaRecovery ]
             IN  IF ~checkFrom.ok \/ ~checkTo.ok
                 THEN Answer(Failed(ErrInvalidAddress), { ReadRequest })
                 ELSE Answer(Returned(
                          [ UnsignedTransaction |-> MarshalTransaction(unsignedTx),
                            Payloads |-> << payload >> ]), { ReadRequest })

\* ConstructionPayloads: the amount of the transaction is the amount of the
\* operation with the positive amount.
ConstructionPayloads(chainID, operations, metadataText) ==
    LET matches == MatchOperations(operations)
        md == UnmarshalMetadata(metadataText)
    IN  IF matches = None
        THEN Answer(Failed(ErrUnclearIntent), { ReadRequest })
        ELSE IF md = None
        THEN Answer(Failed(ErrUnableToParseIntermediateResult), { ReadRequest })
        ELSE LET amount == matches[1][2].Value
                 checkFrom == ChecksumAddressOk(matches[1][1].Address)
                 checkTo == ChecksumAddressOk(matches[1][2].Address)
                 t == NewTransaction(md[1].Nonce, HexToAddress(checkTo.address),
                          amount, TransferGasLimit, md[1].GasPrice, TransferData)
                 unsignedTx ==
                     [ From |-> checkFrom.address, To |-> checkTo.address,
                       Value |-> amount, Data |-> t.Data, Nonce |-> t.Nonce,
                       GasPrice |-> md[1].GasPrice, GasLimit |-> t.Gas,
                       ChainID |-> chainID ]
                 payload ==
                     [ AccountIdentifier |-> checkFrom.address,
                       Bytes |-> SigHash(t, chainID),
                       SignatureType |-> EcdsaRecovery ]
             IN  IF ~checkFrom.ok \/ ~checkTo.ok
                 THEN Answer(Failed(ErrInvalidAddress), { ReadRequest })
                 ELSE Answer(Returned(
                          [ UnsignedTransaction |-> MarshalTransaction(unsignedTx),
                            Payloads |-> << payload >> ]), { ReadRequest })

\* ConstructionCombine: the transaction is built again from the unsigned
\* text and given the first signature.
ConstructionCombine(unsignedText, signatures) ==
    LET u == UnmarshalTransaction(unsignedText)
    IN  IF u = None
        THEN Answer(Failed(ErrUnableToParseIntermediateResult), { ReadRequest })
        ELSE LET t == NewTransaction(u[1].Nonce, HexToAddress(u[1].To),
                          u[1].Value, u[1].GasLimit, u[1].GasPrice, u[1].Data)
                 signedTx == WithSignature(t, u[1].ChainID, signatures[1])
             IN  IF signedTx = None
                 THEN Answer(Failed(ErrSignatureInvalid), { ReadRequest })
                 ELSE Answer(Returned(
                          [ SignedTransaction |-> MarshalSigned(signedTx[1]) ]),
                          { ReadRequest })

\* The two operations ConstructionParse answers with.
ParsedOperations(checkFrom, checkTo, value) ==
    << Operation(0, CallOpType, checkFrom, 0 - value),
       Operation(1, CallOpType, checkTo, value) >>

\* ConstructionParse
ConstructionParse(signed, text) ==
    LET u == IF signed THEN UnmarshalSigned(text) ELSE UnmarshalTransaction(text)
    IN  IF u = None
        THEN Answer(Failed(ErrUnableToParseIntermediateResult), { ReadRequest })
        ELSE LET from == IF signed THEN Hex(Sender(u[1])) ELSE u[1].From
                 to == IF signed THEN Hex(u[1].To) ELSE u[1].To
                 checkFrom == ChecksumAddressOk(from)
                 checkTo == ChecksumAddressOk(to)
             IN  IF ~checkFrom.ok \/ ~checkTo.ok
                 THEN Answer(Failed(ErrInvalidAddress), { ReadRequest })
                 ELSE Answer(Returned(
                          [ Operations |-> ParsedOperations(checkFrom.address,
                                               checkTo.address, u[1].Value),
                            AccountIdentifierSigners |->
                                IF signed THEN << checkFrom.address >> ELSE << >> ]),
                          { ReadRequest })

\* Transaction.Hash
TxHash(t) == << "hash", t >>

\* ConstructionSubmit: sendOut is whether the node took the transaction.
ConstructionSubmit(mode, text, sendOut) ==
    IF mode # Online
    THEN Answer(Failed(ErrUnavailableOffline), {})
    ELSE IF UnmarshalSigned(text) = None
    THEN Answer(Failed(ErrUnableToParseIntermediateResult), { ReadRequest })
    ELSE IF ~sendOut
    THEN Answer(Failed(ErrBroadcastFailed), { ReadRequest, CalledClient })
    ELSE Answer(Returned([ TransactionIdentifier |->
                             TxHash(UnmarshalSigned(text)[1]) ]),
                { ReadRequest, CalledClient })

\* AccountBalance: the request goes to the client as it is; balanceOut is
\* the client's answer (None: an error).
AccountBalance(mode, request, balanceOut) ==
    IF mode # Online
    THEN Answer(Failed(ErrUnavailableOffline), {})
    ELSE IF balanceOut = None
    THEN Answer(Failed(ErrGeth), { ReadRequest, CalledClient })
    ELSE Answer(Returned(balanceOut[1]), { ReadRequest, CalledClient })

\* Call: the client's error decides the error of the service.
CallErrors ==
    { ErrNone, ErrCallParametersInvalid, ErrCallOutputMarshal,
      ErrCallMethodInvalid, ErrRPC }

Call(mode, request, callOut) ==
    IF mode # Online
    THEN Answer(Failed(ErrUnavailableOffline), {})
    ELSE IF callOut = ErrNone
    THEN Answer(Returned([ Result |-> request.Method ]),
                { ReadRequest, CalledClient })
    ELSE IF callOut \in { ErrCallParametersInvalid, ErrCallOutputMarshal,
                          ErrCallMethodInvalid }
    THEN Answer(Failed(callOut), { ReadRequest, CalledClient })
    ELSE Answer(Failed(ErrGeth), { ReadRequest, CalledClient })

\* The intents of the callers: two operations as a rule, with addresses in
\* any written form or none at all, and amounts of either sign.
MaxAmount == 2
IntentAddresses == { "0xaa", "0xAa", "0xbb", "0xzz" }
IntentValues == (0 - MaxAmount) .. MaxAmount
Intents ==
    { << Operation(0, CallOpType, a1, v1), Operation(1, CallOpType, a2, v2) >> :
        a1 \in IntentAddresses, v1 \in IntentValues,
        a2 \in IntentAddresses, v2 \in IntentValues }
    \cup { << Operation(0, CallOpType, "0xaa", 0 - 1) >>,
           << Operation(0, CreateOpType, "0xaa", 0 - 1),
              Operation(1, CallOpType, "0xbb", 1) >>,
           << Operation(0, CallOpType, "0xaa", 0 - 1),
              Operation(1, CallOpType, "0xbb", 1),
              Operation(2, CallOpType, "0xbb", 1) >> }

\* A transaction of the service for the requests that stand alone.
SampleTransaction ==
    [ From |-> "0xAa", To |-> "0xBb", Value |-> 1, Data |-> TransferData,
      Nonce |-> 0, GasPrice |-> 1, GasLimit |-> TransferGasLimit,
      ChainID |-> 1 ]

SampleSigned ==
    LET t == NewTransaction(0, AddrB, 1, TransferGasLimit, 1, TransferData)
    IN  WithSignature(t, 1, Signature(AddrA, SigHash(t, 1)))[1]

\* The requests a caller makes on their own: well formed and not.
LoneRequests ==
    { [ Endpoint |-> "ConstructionMetadata", Options |-> o ] :
        o \in { Malformed, MarshalOptions("0xAa") } }
    \cup { [ Endpoint |-> "ConstructionPayloads", Operations |-> o, Metadata |-> m ] :
        o \in { << Operation(0, CallOpType, "0xaa", 0 - 1),
                   Operation(1, CallOpType, "0xbb", 1) >> },
        m \in { Malformed, MarshalMetadata(0, 1),
                Some([ nonce |-> << "zz", 0 >>, gas_price |-> EncodeBig(1) ]) } }
    \cup { [ Endpoint |-> "ConstructionCombine", UnsignedTransaction |-> u,
             Signatures |-> << s >> ] :
        u \in { Malformed, MarshalTransaction(SampleTransaction) },
        s \in { Malformed, Signature(AddrA, SigHash(SampleSigned, 1)) } }
    \cup { [ Endpoint |-> "ConstructionParse", Signed |-> s, Transaction |-> t ] :
        s \in BOOLEAN,
        t \in { Malformed, MarshalTransaction(SampleTransaction),
                MarshalSigned(SampleSigned) } }
    \cup { [ Endpoint |-> "ConstructionSubmit", SignedTransaction |-> t ] :
        t \in { Malformed, MarshalTransaction(SampleTransaction),
                MarshalSigned(SampleSigned) } }
    \cup { [ Endpoint |-> "AccountBalance", Address |-> a, Block |-> b ] :
        a \in { "0xaa", "0xzz" }, b \in { None, Some(1) } }
    \cup { [ Endpoint |-> "Call", Method |-> m, WellFormed |-> w ] :
        m \in { "eth_call", "bogus" }, w \in BOOLEAN }

InitServices(mode, chainID, flow, intent, request) ==
    /\ tx = [ Mode |-> mode, ChainID |-> chainID, Flow |-> flow,
              Intent |-> intent, Signatures |-> << >>, Request |-> request ]
    /\ rawTrace = None
    /\ tree = None
    /\ calls = <<>>
    /\ i = 0
    /\ ops = <<>>
    /\ prov = <<>>
    /\ ledger = EmptyMap
    /\ reached = {}
    /\ pc = request.Endpoint
    /\ result = EmptyMap
    /\ IdleFetch /\ IdleGate /\ IdleBalance

\* An endpoint answers: the answer is kept under the endpoint's name, and the
\* caller of a flow goes on to the next endpoint with the request built
\* from the answer, or stops at an error.
Respond(answer, nextRequest) ==
    /\ result' = MapPut(result, pc, [ err |-> answer.err, value |-> answer.value ])
    /\ reached' = reached \cup { << pc, d >> : d \in answer.did }
    /\ IF tx.Flow /\ answer.err = ErrNone /\ nextRequest # None
       THEN /\ pc' = nextRequest[1].Endpoint
            /\ tx' = [ tx EXCEPT !.Request = nextRequest[1],
                         !.Signatures = IF "Signatures" \in DOMAIN nextRequest[1]
                                        THEN nextRequest[1].Signatures ELSE @ ]
       ELSE /\ pc' = "done"
            /\ tx' = tx
    /\ UNCHANGED <<rawTrace, tree, calls, i, ops, prov, ledger>>
    /\ UNCHANGED <<fetchVars, gateVars, balVars>>

Preprocess ==
    /\ pc = "ConstructionPreprocess"
    /\ LET a == ConstructionPreprocess(tx.Request.Operations)
       IN  Respond(a, IF a.err # ErrNone THEN None
                      ELSE Some([ Endpoint |-> "ConstructionMetadata",
                                  Options |-> a.value[1].Options ]))

Metadata ==
    /\ pc = "ConstructionMetadata"
    /\ \E nonceOut \in { None } \cup { Some(n) : n \in Nonces },
          priceOut \in { None } \cup { Some(p) : p \in GasPrices } :
          LET a == ConstructionMetadata(tx.Mode, tx.Request.Options,
                                         nonceOut, priceOut)
          IN  Respond(a, IF a.err # ErrNone THEN None
                         ELSE Some([ Endpoint |-> "ConstructionPayloads",
                                     Operations |-> tx.Intent,
                                     Metadata |-> a.value[1].Metadata ]))

\* The caller signs the payload with the key of the account the payload
\* names, or with another key, or sends something that is no signature.
Payloads ==
    /\ pc = "ConstructionPayloads"
    /\ LET a == ConstructionPayloads(tx.ChainID, tx.Request.Operations,
                                      tx.Request.Metadata)
       IN  IF a.err # ErrNone THEN Respond(a, None)
           ELSE \E s \in { Malformed,
                           Signature(HexToAddress(
                               a.value[1].Payloads[1].AccountIdentifier),
                               a.value[1].Payloads[1].Bytes),
                           Signature(StrangerAddress,
                               a.value[1].Payloads[1].Bytes) } :
                   Respond(a, Some([ Endpoint |-> "ConstructionCombine",
                                     UnsignedTransaction |->
                                         a.value[1].UnsignedTransaction,
                                     Signatures |-> << s >> ]))

Combine ==
    /\ pc = "ConstructionCombine"
    /\ LET a == ConstructionCombine(tx.Request.UnsignedTransaction,
                                     tx.Request.Signatures)
       IN  Respond(a, IF a.err # ErrNone THEN None
                      ELSE Some([ Endpoint |-> "ConstructionParse",
                                  Signed |-> TRUE,
                                  Transaction |-> a.value[1].SignedTransaction ]))

Parse ==
    /\ pc = "ConstructionParse"
    /\ LET a == ConstructionParse(tx.Request.Signed, tx.Request.Transaction)
       IN  Respond(a, Some([ Endpoint |-> "ConstructionSubmit",
                             SignedTransaction |-> tx.Request.Transaction ]))

Submit ==
    /\ pc = "ConstructionSubmit"
    /\ \E sendOut \in BOOLEAN :
          Respond(ConstructionSubmit(tx.Mode, tx.Request.SignedTransaction,
                                     sendOut), None)

Balance ==
    /\ pc = "AccountBalance"
    /\ \E balanceOut \in { None, Some(0), Some(1) } :
          Respond(AccountBalance(tx.Mode, tx.Request, balanceOut), None)

CallPassthrough ==
    /\ pc = "Call"
    /\ \E callOut \in CallErrors :
          /\ tx.Request.Method = "bogus" => callOut = ErrCallMethodInvalid
          /\ (tx.Request.Method # "bogus" /\ ~tx.Request.WellFormed)
                => callOut = ErrCallParametersInvalid
          /\ Respond(Call(tx.Mode, tx.Request, callOut), None)

NextServices ==
    \/ Preprocess
    \/ Metadata
    \/ Payloads
    \/ Combine
    \/ Parse
    \/ Submit
    \/ Balance
    \/ CallPassthrough

SpecServices ==
    /\ \E mode \in Modes, chainID \in ChainIDs :
          \/ \E intent \in Intents :
                InitServices(mode, chainID, TRUE, intent,
                    [ Endpoint |-> "ConstructionPreprocess",
                      Operations |-> intent ])
          \/ \E request \in LoneRequests :
                InitServices(mode, chainID, FALSE, << >>, request)
    /\ [][NextServices]_vars

\* The endpoints that need the node.
OnlineOnly ==
    { "ConstructionMetadata", "ConstructionSubmit", "AccountBalance", "Call" }

\* C21: in offline mode every endpoint that needs the node (construction
\* Metadata and Submit, account balance, call) answers UnavailableOffline
\* without having read its request and without having called the node
\* client, whatever the request.
C21_OfflineGate ==
    tx.Mode = Offline =>
        \A e \in DOMAIN result \cap OnlineOnly :
            /\ result[e].err = ErrUnavailableOffline
            /\ << e, ReadRequest >> \notin reached
            /\ << e, CalledClient >> \notin reached

\* An offline service was asked for metadata with options that do not
\* decode, and answered.
C21_Witness ==
    /\ tx.Mode = Offline
    /\ "ConstructionMetadata" \in DOMAIN result
    /\ tx.Request.Options = Malformed
    /\ result["ConstructionMetadata"].err = ErrUnavailableOffline

\* Two written addresses name the same account.
SameAccount(a, b) ==
    IsHexAddress(a) /\ IsHexAddress(b) /\ HexToAddress(a) = HexToAddress(b)

\* The parsed operations are the operations of the intent: the same
\* accounts with the same amounts, whichever way the intent ordered them.
SameOperations(parsed, intent) ==
    /\ Len(parsed) = Len(intent)
    /\ \A k \in DOMAIN intent : \E j \in DOMAIN parsed :
          /\ SameAccount(parsed[j].Address, intent[k].Address)
          /\ parsed[j].Value = intent[k].Value
          /\ parsed[j].Type = intent[k].Type

\* The sender of an intent: the account of the operation that pays.
IntentSender(intent) ==
    (CHOOSE k \in DOMAIN intent : intent[k].Value < 0)

\* A flow went from Payloads through Combine, with a signature made by the
\* key of the account the signing payload names over the payload's bytes,
\* to the parsing of the signed transaction.
SignedRoundTrip ==
    /\ tx.Flow
    /\ "ConstructionParse" \in DOMAIN result
    /\ tx.Signatures[1] # Malformed
    /\ LET p == result["ConstructionPayloads"].value[1].Payloads[1]
       IN  tx.Signatures[1] = Signature(HexToAddress(p.AccountIdentifier), p.Bytes)

RoundTripReproduces ==
    LET parsed == result["ConstructionParse"]
    IN  /\ parsed.err = ErrNone
        /\ SameOperations(parsed.value[1].Operations, tx.Intent)
        /\ Len(parsed.value[1].AccountIdentifierSigners) = 1
        /\ SameAccount(parsed.value[1].AccountIdentifierSigners[1],
                       tx.Intent[IntentSender(tx.Intent)].Address)

\* C22: for every two-operation intent that Payloads accepts, the signed
\* transaction that Combine builds from the unsigned transaction and a valid
\* signature of the signing payload parses (signed) into the two operations
\* of the intent, same accounts and amounts, with the sender of the intent
\* as the one signer.
C22_RoundTrip == SignedRoundTrip => RoundTripReproduces

\* The same for the intents whose two amounts are opposite.
RoundTripOfBalanced ==
    (SignedRoundTrip /\ tx.Intent[1].Value + tx.Intent[2].Value = 0)
        => RoundTripReproduces

RoundTripOfBalancedReached ==
    /\ SignedRoundTrip
    /\ tx.Intent[1].Value + tx.Intent[2].Value = 0
    /\ tx.Intent[1].Value > 0
    /\ tx.Intent[2].Address = "0xaa"

\* The checksum form of a written address, as the specification means it.
StatedChecksum(a) ==
    IF a \in FormsOfA THEN "0xAa" ELSE IF a \in FormsOfB THEN "0xBb" ELSE a

\* The flow of an intent [{A, -X}, {B, +X}] with two valid addresses.
TransferIntent ==
    /\ tx.Flow
    /\ Len(tx.Intent) = 2
    /\ tx.Intent[1].Type = CallOpType /\ tx.Intent[2].Type = CallOpType
    /\ tx.Intent[2].Value >= 1
    /\ tx.Intent[1].Value = 0 - tx.Intent[2].Value
    /\ IsHexAddress(tx.Intent[1].Address)
    /\ IsHexAddress(tx.Intent[2].Address)

\* C23: for an intent [{A, -X}, {B, +X}] with valid addresses, Preprocess
\* answers options whose from is the checksum form of A, and Payloads on
\* the same intent answers exactly one signing payload, whose signer is
\* that checksum address.
C23_SenderSigns ==
    TransferIntent =>
        /\ "ConstructionPreprocess" \in DOMAIN result =>
              /\ result["ConstructionPreprocess"].err = ErrNone
              /\ UnmarshalOptions(
                     result["ConstructionPreprocess"].value[1].Options)[1].From
                   = StatedChecksum(tx.Intent[1].Address)
        /\ "ConstructionPayloads" \in DOMAIN result =>
              /\ result["ConstructionPayloads"].err = ErrNone
              /\ Len(result["ConstructionPayloads"].value[1].Payloads) = 1
              /\ result["ConstructionPayloads"].value[1].Payloads[1]
                     .AccountIdentifier
                   = StatedChecksum(tx.Intent[1].Address)

\* Payloads answered the intent of a sender written in lower case.
C23_Witness ==
    /\ TransferIntent
    /\ tx.Intent[1].Address = "0xaa"
    /\ tx.Intent[2].Address = "0xbb"
    /\ "ConstructionPayloads" \in DOMAIN result
    /\ result["ConstructionPayloads"].value[1].Payloads[1].AccountIdentifier
         = "0xAa"

\* C24: for every gas price the node suggests, the suggested fee that
\* Metadata answers is the gas price times 21000 exactly: no overflow, no
\* wrap-around, no truncation.
C24_ExactSuggestedFee ==
    ("ConstructionMetadata" \in DOMAIN result
        /\ result["ConstructionMetadata"].err = ErrNone) =>
        LET r == result["ConstructionMetadata"].value[1]
        IN  r.SuggestedFee
              = SuggestedFeeExact(UnmarshalMetadata(r.Metadata)[1].GasPrice)

\* The same for the gas prices whose fee an int64 holds.
SuggestedFeeOfSmallPrice ==
    ("ConstructionMetadata" \in DOMAIN result
        /\ result["ConstructionMetadata"].err = ErrNone
        /\ UnmarshalMetadata(result["ConstructionMetadata"].value[1].Metadata)[1]
             .GasPrice <= MaxExactGasPrice) =>
        LET r == result["ConstructionMetadata"].value[1]
        IN  r.SuggestedFee
              = SuggestedFeeExact(UnmarshalMetadata(r.Metadata)[1].GasPrice)

SuggestedFeeOfSmallPriceReached ==
    /\ "ConstructionMetadata" \in DOMAIN result
    /\ result["ConstructionMetadata"].err = ErrNone
    /\ result["ConstructionMetadata"].value[1].SuggestedFee
         = MaxExactGasPrice * TransferGasLimit

\* The trace fetches that hold a permit: those between their successful
\* Acquire and their return.
Holders == granted + outBlock + outTx

\* C25: every successful acquisition of a permit is followed by exactly one
\* release on every exit of the trace fetch (request error, decode error,
\* success) and a failed acquisition releases nothing: the weight handed
\* out is always that of the fetches holding a permit, so the free permits
\* never exceed 16 and are 16 again once every trace fetch has returned.
C25_OneReleasePerAcquisition ==
    /\ cur = Holders * semaphoreTraceWeight
    /\ maxTraceConcurrency - cur <= maxTraceConcurrency
    /\ cur <= maxTraceConcurrency
    /\ Holders + waiting = 0 => maxTraceConcurrency - cur = maxTraceConcurrency

\* Every fetch has returned, the last one on a decode error, after the
\* watched caller gave up waiting for a permit.
C25_Witness ==
    /\ gvariant = "ethereum"
    /\ watched = "cancelled"
    /\ lastExit = "decode error"
    /\ Holders + waiting = 0
    /\ cur = 0

\* C30: if every trace request that was sent is answered, a trace fetch
\* that waits for a permit and is not cancelled gets one; the other fetches
\* neither starve it nor block it for good.
C30_WaitingFetchAcquires ==
    (watched = "waiting") ~> (watched \in { "granted", "cancelled" })

\* The watched caller was handed a permit after it had queued, with other
\* callers queued behind it.
C30_Witness ==
    /\ watched = "granted"
    /\ waiting > 0
    /\ cur = maxTraceConcurrency

UnclesGathered ==
    req[1].variant = "ethereum" =>
        /\ Len(uncles) = Len(body[1].UncleHashes)
        /\ UnclesLoop(uncles, 1) = ErrNone

\* The error of the first stage before the traces that failed on what the
\* node sent, if any.
EarlierStageError ==
    IF req[1].variant = "ethereum" /\ QuickVerify(header[1], body[1]) # ErrNone
    THEN QuickVerify(header[1], body[1])
    ELSE IF req[1].variant = "ethereum" /\ UnclesLoop(uncles, 1) # ErrNone
    THEN UnclesLoop(uncles, 1)
    ELSE ReceiptsLoop(body[1].Hash, reqs, 1)

C28_ReceiptFailureReturned ==
    ( /\ req # None
      /\ req[1].op = "Transaction"
      /\ reqs # <<>>
      /\ reqs[1].Error \/ reqs[1].Receipt = None ) =>
        /\ fpc = "done"
        /\ fres[1].value = None
        /\ fres[1].err = IF reqs[1].Error THEN ErrRPC ELSE ErrNotFound


\***************************************************************************
\* C29: operation synthesis is deterministic: for the same flattened trace
\* list and start index traceOps returns the same operation list every
\* time, the order and the indices of the synthetic DESTRUCT operations
\* included when more than one address ends with a non-zero ledger delta.
\* The operations of the loop are fixed by the list; what is left open is
\* the order in which the range over destroyedAccounts yields its entries,
\* so the list returned must be the one every such order produces.
\***************************************************************************
NonZeroEntries == { a \in DOMAIN ledger : ledger[a] # 0 }

\* The operations the loop had built when the list was exhausted.
LoopOps == SubSeq(ops, 1, Len(ops) - Cardinality(NonZeroEntries))

C29_TraceOpsDeterministic ==
    pc = "done" =>
        \A q \in Orders(DOMAIN ledger) :
            result = Some(feeOps(tx) \o DestructOps(LoopOps, ledger, q))

\* With at most one non-zero entry every order yields the same list.
OneDestructDeterministic ==
    (pc = "done" /\ Cardinality(NonZeroEntries) <= 1) =>
        \A q \in Orders(DOMAIN ledger) :
            result = Some(feeOps(tx) \o DestructOps(LoopOps, ledger, q))

OneDestructDeterministicReached ==
    /\ pc = "done"
    /\ Cardinality(NonZeroEntries) = 1
    /\ Cardinality(DOMAIN ledger) = 2

\* Two destroyed addresses end with a credit of 1 each.
TwoDestructsReturned ==
    /\ pc = "done"
    /\ Cardinality(NonZeroEntries) = 2

==========================================================================
